---- MODULE Spec2Model ----
(***************************************************************************)
(* A model of the visual script plugin: the editor's Graph (nodes, links,  *)
(* variable table, node-id counter, persisted format), the nodes' code     *)
(* generation, and the kvm bytecode writer and interpreter.                *)
(*                                                                         *)
(* 32-bit unsigned values are held as the signed integer with the same bit *)
(* pattern (bit 31 set <=> negative), so that every value fits the range   *)
(* of the model checker's integers.                                        *)
(***************************************************************************)
EXTENDS Integers, Sequences, FiniteSets, TLC

VARIABLES
    m_nodes,        \* Graph::m_nodes: sequence of node records
    m_links,        \* Graph::m_links: sequence of [from, to]
    m_variables,    \* Graph::m_variables: sequence of [name, type]
    node_counter_,  \* Graph::node_counter_
    blob,           \* the persisted graph written by Graph::serialize (a word sequence)
    compiled,       \* the fresh Graph of VisualScriptAssetPlugin::compile after deserialize
    m_path,         \* VisualScriptEditorPlugin::m_path (0 is the empty path)
    generated,      \* the instructions appended by the last Node::generate call
    wasm,           \* the module written by the last Graph::generate call
    run,            \* the module instance: its globals and how the last call ended
    resource,       \* VisualScriptAssetPlugin::compile: its return and the resource written
    bytecode,       \* kvm_bc_writer: the words written so far (ip - bytecode = 4 * Len)
    capacity,       \* kvm_bc_writer::capacity, in bytes
    labels,         \* kvm_bc_writer::labels[0 .. labels_count - 1]
    emitted,        \* history: the instructions written, [op, at, arg]
    placed,         \* history: per label, [off, after] of its last placement
    pc,             \* "idle", "write", "ready", "run", "done" or "undefined"
    stack,          \* KVM::stack
    determined,     \* the stack slots that were written or read so far
    sp,             \* the local sp of kvm_call
    vm_sp,          \* KVM::sp
    ip,             \* the local ip of kvm_call, as a byte offset
    env,            \* the environment block
    steps,          \* instructions executed by kvm_call
    got,            \* the last kvm_get* call of the host: [fn, idx, value]
    other,          \* a second KVM instance on the same bytecode, while it does not run
    m_scripts,              \* ScriptSceneImpl::m_scripts: entity -> Script
    m_mouse_move_scripts,   \* ScriptSceneImpl::m_mouse_move_scripts
    m_key_input_scripts,    \* ScriptSceneImpl::m_key_input_scripts
    m_is_game_running,      \* ScriptSceneImpl::m_is_game_running
    loaded,                 \* the paths of the resources that are ready
    called                  \* the script functions the last update looked up, in order

graphVars == <<m_nodes, m_links, m_variables, node_counter_, blob, compiled, m_path>>

kvmVars == <<bytecode, capacity, labels, emitted, placed, pc, stack, determined,
             sp, vm_sp, ip, env, steps, got, other>>

genVars == <<generated, wasm, run, resource>>

sceneVars == <<m_scripts, m_mouse_move_scripts, m_key_input_scripts, m_is_game_running,
               loaded, called>>

vars == <<graphVars, genVars, kvmVars, sceneVars>>

(***************************************************************************)
(* Bounds of the model.                                                    *)
(***************************************************************************)
MaxNodes == 2       \* nodes in a graph at a time
MaxLinks == 2       \* links in a graph at a time
MaxVars == 2        \* entries of the variable table
MaxCreated == 3     \* nodes created on top of the counter's starting value
MaxItems == 5       \* nodes, links and variables together in a graph that is saved
MaxInstr == 2       \* instructions written through the kvm_bc_* API
MaxLabels == 1      \* labels created by kvm_bc_create_label
MaxPush == 2        \* values the host pushes before kvm_call
MaxRegistered == 2   \* update runs while no event list is longer than this
MaxSteps == 5       \* instructions one kvm_call executes
MaxCalls == 2       \* calls of an export on one module instance

\* Node-id counter values the model starts an editing session from: a new
\* graph, and a graph whose counter has grown (each load adds the node count
\* to the counter, each addNode adds one) to just below 2^15.
CounterStarts == {0, 32766}

\* Names of the variable table ("" is 0) and literal values, as small words.
VarNames == {0, 1}
Literals == {0, 5}
Positions == {7}
VarTypes == {0, 2}      \* ScriptValueType U32 and FLOAT
PinRange == 0..2
EditTypes == {0, 4}     \* Node::Type ADD and CONST
ParamTypes == {4, 24}   \* Node::Type CONST and SWITCH
LinkedTypes == {4, 24}  \* Node::Type CONST and SWITCH

(***************************************************************************)
(* Node::Type                                                              *)
(***************************************************************************)
Type_ADD == 0
Type_SEQUENCE == 1
Type_SELF == 2
Type_SET_YAW == 3
Type_CONST == 4
Type_MOUSE_MOVE == 5
Type_UPDATE == 6
Type_GET_VARIABLE == 7
Type_SET_VARIABLE == 8
Type_SET_PROPERTY == 9
Type_MUL == 10
Type_CALL == 11
Type_VEC3 == 12
Type_YAW_TO_DIR == 13
Type_START == 14
Type_IF == 15
Type_EQ == 16
Type_NEQ == 17
Type_GT == 18
Type_LT == 19
Type_GTE == 20
Type_LTE == 21
Type_KEY_INPUT == 22
Type_GET_PROPERTY == 23
Type_SWITCH == 24

NodeTypes == 0..24

\* ScriptValueType
ValueType_U32 == 0
ValueType_I32 == 1
ValueType_FLOAT == 2
ValueType_ENTITY == 3
ScriptValueTypes == 0..3

MAGIC == 1598838355     \* '_LVS'

\* NodeEditor::OUTPUT_FLAG, bit 31 of a pin id
OUTPUT_FLAG == -2147483647 - 1

(***************************************************************************)
(* Pin ids: m_id | (pin << 16) [| OUTPUT_FLAG]                             *)
(***************************************************************************)
InputPinId(id, pin) == id + pin * 65536

OutputPinId(id, pin) == OUTPUT_FLAG + (id + pin * 65536)

\* x & 0x7fff, the node id of a pin id as the graph reads it
NodeOfPin(x) == x % 32768

\* x >> 16 of a u32
Shr16(x) == IF x >= 0 THEN x \div 65536 ELSE (x \div 65536) + 65536

\* NodeEditorLink::getFromPin / getToPin: the pin index without the flag
PinOfPin(x) == Shr16(x) % 32768

(***************************************************************************)
(* Nodes.  A record holds the fields of every node struct; a field a node  *)
(* type does not have keeps its default.                                   *)
(***************************************************************************)
NewNode(type) ==
    [type |-> type, m_id |-> 0, m_pos |-> 0,
     m_value |-> 0,         \* ConstNode::m_value
     m_is_on |-> TRUE,      \* SwitchNode::m_is_on
     m_var |-> 0,           \* GetVariableNode / SetVariableNode ::m_var
     prop |-> 0, value |-> 0, cmp |-> 0,    \* Get/SetPropertyNode
     func |-> 0]            \* CallNode::function

\* addNode numbering the node by its place in the list
addNode_idFromSize(nodes, counter, n) ==
    [nodes |-> Append(nodes, [n EXCEPT !.m_id = Len(nodes) + 1]),
     counter |-> counter + 1]

\* Graph::addNode: the node gets the next id and is appended
addNode(nodes, counter, n) ==
    [nodes |-> Append(nodes, [n EXCEPT !.m_id = counter + 1]),
     counter |-> counter + 1]

\* Graph::createNode: a default-constructed node of the type
createNode(nodes, counter, type) == addNode(nodes, counter, NewNode(type))

RemoveAt(s, i) == SubSeq(s, 1, i - 1) \o SubSeq(s, i + 1, Len(s))

\* Array::swapAndPop: the last element takes the place of element i
swapAndPop(s, i) ==
    IF i = Len(s) THEN SubSeq(s, 1, Len(s) - 1)
    ELSE [k \in 1..(Len(s) - 1) |-> IF k = i THEN s[Len(s)] ELSE s[k]]

\* the loop of Graph::removeNode over the links
removeNodeLinks(links, node_id) ==
    LET keep(l) == ~(NodeOfPin(l.from) = node_id \/ NodeOfPin(l.to) = node_id)
    IN SelectSeq(links, keep)

\* Graph::removeNode(node), node an index into m_nodes (from 1 in the model)
removeNode(g, node) ==
    [g EXCEPT !.links = removeNodeLinks(g.links, g.nodes[node].m_id),
              !.nodes = RemoveAt(g.nodes, node)]

\* Graph::removeLink
removeLink(g, link) == [g EXCEPT !.links = RemoveAt(g.links, link)]

RECURSIVE deleteSelectedFrom(_, _, _)
\* VisualScriptEditorPlugin::deleteSelectedNodes: the loop from index i down
\* to the first node; sel is the set of ids of the nodes with m_selected.
deleteSelectedFrom(g, i, sel) ==
    IF i < 1 THEN g
    ELSE IF g.nodes[i].m_id \in sel
         THEN LET id == g.nodes[i].m_id
                  keep(l) == ~(NodeOfPin(l.from) = id \/ NodeOfPin(l.to) = id)
              IN deleteSelectedFrom(
                    [g EXCEPT !.links = SelectSeq(g.links, keep),
                              !.nodes = swapAndPop(g.nodes, i)],
                    i - 1, sel)
         ELSE deleteSelectedFrom(g, i - 1, sel)

deleteSelectedNodes(g, sel) == deleteSelectedFrom(g, Len(g.nodes), sel)

(***************************************************************************)
(* The persisted format.  The stream is a sequence of words; a string is   *)
(* one word (the name it stands for).                                      *)
(***************************************************************************)
RECURSIVE Flatten(_)
Flatten(ss) == IF ss = <<>> THEN <<>> ELSE Head(ss) \o Flatten(Tail(ss))

BoolWord(b) == IF b THEN 1 ELSE 0

\* Node::serialize and its overrides
NodeSerialize(n) ==
    CASE n.type = Type_CONST -> <<n.m_value>>
      [] n.type = Type_SWITCH -> <<BoolWord(n.m_is_on)>>
      [] n.type = Type_CALL -> <<n.cmp, n.func>>
      [] n.type = Type_GET_PROPERTY -> <<n.prop, n.cmp>>
      [] n.type = Type_SET_PROPERTY -> <<n.prop, n.value, n.cmp>>
      [] OTHER -> <<>>

\* Graph::serialize
serialize(g) ==
    <<MAGIC, 0, g.counter>>
    \o <<Len(g.variables)>>
    \o Flatten([i \in 1..Len(g.variables) |->
                    <<g.variables[i].name, g.variables[i].type>>])
    \o <<Len(g.links)>>
    \o Flatten([i \in 1..Len(g.links) |-> <<g.links[i].from, g.links[i].to>>])
    \o <<Len(g.nodes)>>
    \o Flatten([i \in 1..Len(g.nodes) |->
                    <<g.nodes[i].type, g.nodes[i].m_id, g.nodes[i].m_pos>>
                    \o NodeSerialize(g.nodes[i])])

\* InputMemoryStream::read of one word at pos
Read(b, pos) == IF pos <= Len(b) THEN b[pos] ELSE 0

\* Node::deserialize and its overrides: the node read at pos and the next position
NodeDeserialize(n, b, pos) ==
    CASE n.type = Type_CONST ->
            [node |-> [n EXCEPT !.m_value = Read(b, pos)], pos |-> pos + 1]
      [] n.type = Type_SWITCH ->
            [node |-> [n EXCEPT !.m_is_on = (Read(b, pos) # 0)], pos |-> pos + 1]
      [] n.type = Type_CALL ->
            [node |-> [n EXCEPT !.cmp = Read(b, pos), !.func = Read(b, pos + 1)],
             pos |-> pos + 2]
      [] n.type = Type_GET_PROPERTY ->
            [node |-> [n EXCEPT !.prop = Read(b, pos), !.cmp = Read(b, pos + 1)],
             pos |-> pos + 2]
      [] n.type = Type_SET_PROPERTY ->
            [node |-> [n EXCEPT !.prop = Read(b, pos), !.value = Read(b, pos + 1),
                                !.cmp = Read(b, pos + 2)],
             pos |-> pos + 3]
      [] OTHER -> [node |-> n, pos |-> pos]

RECURSIVE readVariables(_, _, _, _)
\* the variable loop of Graph::deserialize
readVariables(b, pos, n, acc) ==
    IF n = 0 THEN [variables |-> acc, pos |-> pos]
    ELSE readVariables(b, pos + 2, n - 1,
            Append(acc, [name |-> Read(b, pos), type |-> Read(b, pos + 1)]))

RECURSIVE readLinks(_, _, _, _)
\* the link loop of Graph::deserialize
readLinks(b, pos, n, acc) ==
    IF n = 0 THEN [links |-> acc, pos |-> pos]
    ELSE readLinks(b, pos + 2, n - 1,
            Append(acc, [from |-> Read(b, pos), to |-> Read(b, pos + 1)]))

RECURSIVE readNodes_keepCreatedId(_, _, _, _, _)
\* the node loop without the read of m_id over the id createNode assigned
readNodes_keepCreatedId(b, pos, n, nodes, counter) ==
    IF n = 0 THEN [nodes |-> nodes, counter |-> counter, pos |-> pos]
    ELSE LET c == createNode(nodes, counter, Read(b, pos))
             k == Len(c.nodes)
             n1 == [c.nodes[k] EXCEPT !.m_pos = Read(b, pos + 2)]
             d == NodeDeserialize(n1, b, pos + 3)
         IN readNodes_keepCreatedId(b, d.pos, n - 1, [c.nodes EXCEPT ![k] = d.node],
                                    c.counter)

RECURSIVE readNodes(_, _, _, _, _)
\* the node loop of Graph::deserialize: createNode (which assigns the next
\* id and advances the counter), then m_id, m_pos and the node's own fields
\* are read over it.
readNodes(b, pos, n, nodes, counter) ==
    IF n = 0 THEN [nodes |-> nodes, counter |-> counter, pos |-> pos]
    ELSE LET c == createNode(nodes, counter, Read(b, pos))
             k == Len(c.nodes)
             n1 == [c.nodes[k] EXCEPT !.m_id = Read(b, pos + 1),
                                      !.m_pos = Read(b, pos + 2)]
             d == NodeDeserialize(n1, b, pos + 3)
         IN readNodes(b, d.pos, n - 1, [c.nodes EXCEPT ![k] = d.node], c.counter)

\* a Graph as constructed
EmptyGraph == [nodes |-> <<>>, links |-> <<>>, variables |-> <<>>, counter |-> 0]

\* Same shape as deserialize; the version is read and not compared with 0.
deserialize_anyVersion(g, b) ==
    IF Read(b, 1) # MAGIC THEN [ok |-> FALSE, graph |-> g]
    ELSE LET v == readVariables(b, 5, Read(b, 4), g.variables)
             l == readLinks(b, v.pos + 1, Read(b, v.pos), g.links)
             n == readNodes(b, l.pos + 1, Read(b, l.pos), g.nodes, Read(b, 3))
         IN [ok |-> TRUE,
             graph |-> [nodes |-> n.nodes, links |-> l.links,
                        variables |-> v.variables, counter |-> n.counter]]

\* Graph::deserialize into the graph g: whether it succeeded, and the graph
deserialize(g, b) ==
    IF Read(b, 1) # MAGIC THEN [ok |-> FALSE, graph |-> g]
    ELSE IF Read(b, 2) # 0 THEN [ok |-> FALSE, graph |-> g]
    ELSE LET v == readVariables(b, 5, Read(b, 4), g.variables)
             l == readLinks(b, v.pos + 1, Read(b, v.pos), g.links)
             n == readNodes(b, l.pos + 1, Read(b, l.pos), g.nodes, Read(b, 3))
         IN [ok |-> TRUE,
             graph |-> [nodes |-> n.nodes, links |-> l.links,
                        variables |-> v.variables, counter |-> n.counter]]

(***************************************************************************)
(* The pins each node type shows (onGUI): pin indices count from 0, inputs *)
(* and outputs separately, flow pins first where the title bar has them.   *)
(***************************************************************************)
NumInputPins(n) ==
    CASE n.type \in {Type_ADD, Type_MUL, Type_EQ, Type_NEQ, Type_GT, Type_LT,
                     Type_GTE, Type_LTE, Type_IF, Type_SET_VARIABLE} -> 2
      [] n.type \in {Type_SET_YAW, Type_VEC3, Type_SET_PROPERTY} -> 3
      [] n.type \in {Type_SEQUENCE, Type_SWITCH, Type_YAW_TO_DIR, Type_CALL,
                     Type_GET_PROPERTY} -> 1
      [] OTHER -> 0

\* SequenceNode::onGUI: one flow output more than the highest linked one
SequenceOutputs(n, links) ==
    LET used == {PinOfPin(links[i].from) + 1 :
                    i \in {j \in 1..Len(links) : NodeOfPin(links[j].from) = n.m_id}}
    IN 1 + (IF used = {} THEN 0 ELSE CHOOSE m \in used : \A u \in used : u <= m)

NumOutputPins(n, links) ==
    CASE n.type = Type_SEQUENCE -> SequenceOutputs(n, links)
      [] n.type = Type_MOUSE_MOVE -> 3
      [] n.type \in {Type_IF, Type_SWITCH, Type_KEY_INPUT, Type_UPDATE} -> 2
      [] OTHER -> 1

(***************************************************************************)
(* The editor's graph and its operations as actions.                       *)
(***************************************************************************)
CurGraph ==
    [nodes |-> m_nodes, links |-> m_links, variables |-> m_variables,
     counter |-> node_counter_]

SetGraph(g) ==
    /\ m_nodes' = g.nodes
    /\ m_links' = g.links
    /\ m_variables' = g.variables
    /\ node_counter_' = g.counter

NoGraph == [ok |-> FALSE, graph |-> EmptyGraph]

\* m_path of a new editor: the empty path
NoPath == 0
\* the paths of save and load
Paths == {1, 2}

\* the counter values the model lets a graph reach
CounterInRange(c) == \E s \in CounterStarts : s <= c /\ c <= s + MaxCreated

KVM_STACK_SIZE == 1024

\* The part of KVM::stack a run of at most MaxSteps instructions can touch:
\* an instruction pushes at most two slots and reads at most slot sp + 1.
StackSlots == {s \in 0 .. (MaxPush + 2 * MaxSteps + 1) : s < KVM_STACK_SIZE}

\* The environment block handed to kvm_init: two 32-bit slots.
EnvIdx == {0, 1}

\* No kvm_get* call was made.
NoRead == [fn |-> "", idx |-> 0, value |-> <<>>]

\* There is one KVM instance only.
NoOther == [id |-> 0]

\* No module was written, no instance exists.
NoModule == [written |-> FALSE, head |-> <<>>, exports |-> <<>>, globals |-> <<>>,
             errors |-> {}, invoked |-> {}, asserted |-> FALSE, diverges |-> FALSE]
NoRun == [status |-> "none", func |-> "", globals |-> <<>>, calls |-> 0]
\* The asset compiler was not run.
NoResource == [returned |-> "none", written |-> FALSE, data |-> NoModule]
NotCompiled == wasm = NoModule /\ run = NoRun /\ resource = NoResource

\* Nothing was generated yet.
NoCode == [node |-> 0, output_idx |-> 0, code |-> <<>>, errors |-> {},
           asserted |-> FALSE, diverges |-> FALSE]

\* The scene before any script is created.
SceneIdle ==
    /\ m_scripts = <<>>
    /\ m_mouse_move_scripts = <<>>
    /\ m_key_input_scripts = <<>>
    /\ m_is_game_running = FALSE
    /\ loaded = {}
    /\ called = <<>>

\* The writer and the VM before kvm_bc_start_write and kvm_init.
KvmIdle ==
    /\ bytecode = <<>>
    /\ capacity = 0
    /\ labels = <<>>
    /\ emitted = <<>>
    /\ placed = <<>>
    /\ pc = "idle"
    /\ stack = [s \in StackSlots |-> 0]
    /\ determined = {}
    /\ sp = 0
    /\ vm_sp = 0
    /\ ip = 0
    /\ env = [e \in EnvIdx |-> 0]
    /\ steps = 0
    /\ got = NoRead
    /\ other = NoOther

InitGraph ==
    /\ generated = NoCode
    /\ NotCompiled
    /\ SceneIdle
    /\ KvmIdle
    /\ m_nodes = <<>>
    /\ m_links = <<>>
    /\ m_variables = <<>>
    /\ node_counter_ \in CounterStarts
    /\ blob = <<>>
    /\ compiled = NoGraph
    /\ m_path = NoPath

\* onContextMenu / onCanvasClicked: a node of a type without constructor
\* arguments is added at the clicked position
AddNode(type, pos) ==
    /\ Len(m_nodes) < MaxNodes
    /\ CounterInRange(node_counter_ + 1)
    /\ LET c == createNode(m_nodes, node_counter_, type)
           k == Len(c.nodes)
       IN /\ m_nodes' = [c.nodes EXCEPT ![k].m_pos = pos]
          /\ node_counter_' = c.counter
    /\ UNCHANGED <<m_links, m_variables, blob, compiled, m_path, genVars, kvmVars, sceneVars>>

\* onContextMenu, "Set variable" / "Get variable": a node for the named
\* variable with index var
AddVariableNode(type, var, pos) ==
    /\ type \in {Type_GET_VARIABLE, Type_SET_VARIABLE}
    /\ Len(m_nodes) < MaxNodes
    /\ CounterInRange(node_counter_ + 1)
    /\ var \in 0..(Len(m_variables) - 1)
    /\ m_variables[var + 1].name # 0
    /\ LET c == addNode(m_nodes, node_counter_, [NewNode(type) EXCEPT !.m_var = var])
           k == Len(c.nodes)
       IN /\ m_nodes' = [c.nodes EXCEPT ![k].m_pos = pos]
          /\ node_counter_' = c.counter
    /\ UNCHANGED <<m_links, m_variables, blob, compiled, m_path, genVars, kvmVars, sceneVars>>

\* ConstNode::onGUI: the literal is edited
EditConst(i, v) ==
    /\ i \in 1..Len(m_nodes)
    /\ m_nodes[i].type = Type_CONST
    /\ m_nodes[i].m_value # v
    /\ m_nodes' = [m_nodes EXCEPT ![i].m_value = v]
    /\ UNCHANGED <<m_links, m_variables, node_counter_, blob, compiled, m_path, genVars, kvmVars, sceneVars>>

\* SwitchNode::onGUI: the checkbox is toggled
ToggleSwitch(i) ==
    /\ i \in 1..Len(m_nodes)
    /\ m_nodes[i].type = Type_SWITCH
    /\ m_nodes' = [m_nodes EXCEPT ![i].m_is_on = ~m_nodes[i].m_is_on]
    /\ UNCHANGED <<m_links, m_variables, node_counter_, blob, compiled, m_path, genVars, kvmVars, sceneVars>>

\* onWindowGUI, "Add variable": an entry with an empty name; its type is
\* not initialised by Variable's constructor
AddVariable(type) ==
    /\ Len(m_variables) < MaxVars
    /\ m_variables' = Append(m_variables, [name |-> 0, type |-> type])
    /\ UNCHANGED <<m_nodes, m_links, node_counter_, blob, compiled, m_path, genVars, kvmVars, sceneVars>>

\* onWindowGUI: the type combo and the name field of entry i
EditVariable(i, name, type) ==
    /\ i \in 1..Len(m_variables)
    /\ m_variables[i] # [name |-> name, type |-> type]
    /\ m_variables' = [m_variables EXCEPT ![i] = [name |-> name, type |-> type]]
    /\ UNCHANGED <<m_nodes, m_links, node_counter_, blob, compiled, m_path, genVars, kvmVars, sceneVars>>

\* onWindowGUI: the delete button of entry i
DeleteVariable(i) ==
    /\ i \in 1..Len(m_variables)
    /\ m_variables' = RemoveAt(m_variables, i)
    /\ UNCHANGED <<m_nodes, m_links, node_counter_, blob, compiled, m_path, genVars, kvmVars, sceneVars>>

\* nodeEditorGUI: a link is drawn from output pin op of node a to input pin
\* inp of node b; it holds the two pin ids
CreateLink(a, op, b, inp) ==
    /\ Len(m_links) < MaxLinks
    /\ a \in 1..Len(m_nodes) /\ b \in 1..Len(m_nodes)
    /\ op \in 0..(NumOutputPins(m_nodes[a], m_links) - 1)
    /\ inp \in 0..(NumInputPins(m_nodes[b]) - 1)
    /\ m_links' = Append(m_links,
            [from |-> OutputPinId(m_nodes[a].m_id, op),
             to |-> InputPinId(m_nodes[b].m_id, inp)])
    /\ UNCHANGED <<m_nodes, m_variables, node_counter_, blob, compiled, m_path, genVars, kvmVars, sceneVars>>

RemoveLink(i) ==
    /\ i \in 1..Len(m_links)
    /\ SetGraph(removeLink(CurGraph, i))
    /\ UNCHANGED <<blob, compiled, m_path, genVars, kvmVars, sceneVars>>

RemoveNode(i) ==
    /\ i \in 1..Len(m_nodes)
    /\ SetGraph(removeNode(CurGraph, i))
    /\ UNCHANGED <<blob, compiled, m_path, genVars, kvmVars, sceneVars>>

\* the delete action with the nodes of ids sel selected
DeleteSelectedNodes(sel) ==
    /\ sel # {}
    /\ sel \subseteq {m_nodes[i].m_id : i \in 1..Len(m_nodes)}
    /\ SetGraph(deleteSelectedNodes(CurGraph, sel))
    /\ UNCHANGED <<blob, compiled, m_path, genVars, kvmVars, sceneVars>>

\* saveAs(path): the graph is written out and the path becomes the current path
SaveAs(path) ==
    /\ blob' = serialize(CurGraph)
    /\ blob' # blob
    /\ compiled' = NoGraph
    /\ m_path' = path
    /\ UNCHANGED <<m_nodes, m_links, m_variables, node_counter_, genVars, kvmVars, sceneVars>>

\* save, and saveAs from the dialog that save opens while the path is empty
Save == \E path \in Paths : (m_path = NoPath \/ path = m_path) /\ SaveAs(path)

\* load(path): the editor's graph is replaced by a fresh Graph read from the
\* file (an empty one if reading fails); the path becomes the current path
\* when the file was read
Load(path) ==
    /\ blob # <<>>
    /\ LET d == deserialize(EmptyGraph, blob)
       IN /\ CounterInRange(d.graph.counter)
          /\ SetGraph(IF d.ok THEN d.graph ELSE EmptyGraph)
          /\ m_path' = IF d.ok THEN path ELSE m_path
    /\ UNCHANGED <<blob, compiled, genVars, kvmVars, sceneVars>>

\* save followed by load of the same path, the file not kept
Reload ==
    /\ LET d == deserialize(EmptyGraph, serialize(CurGraph))
       IN /\ CounterInRange(d.graph.counter)
          /\ SetGraph(IF d.ok THEN d.graph ELSE EmptyGraph)
    /\ UNCHANGED <<blob, compiled, m_path, genVars, kvmVars, sceneVars>>

(***************************************************************************)
(* SpecEdit: an editing session on the graph (nodes, links, removal,       *)
(* reload).                                                                *)
(***************************************************************************)
NodeIds == {m_nodes[i].m_id : i \in 1..Len(m_nodes)}

NextEdit ==
    \/ \E t \in EditTypes, p \in Positions : AddNode(t, p)
    \/ \E a \in 1..Len(m_nodes), b \in 1..Len(m_nodes), op \in PinRange, inp \in PinRange :
            CreateLink(a, op, b, inp)
    \/ \E i \in 1..Len(m_links) : RemoveLink(i)
    \/ \E i \in 1..Len(m_nodes) : RemoveNode(i)
    \/ \E sel \in SUBSET NodeIds : DeleteSelectedNodes(sel)
    \/ Reload

SpecEdit == InitGraph /\ [][NextEdit]_vars

(***************************************************************************)
(* Claims on the editing session.                                          *)
(***************************************************************************)
\* the node id a pin id was built from: the bits below the pin index
PinNodeId(x) == x % 65536

LinkTouches(l, id) == PinNodeId(l.from) = id \/ PinNodeId(l.to) = id

\* C3: removeNode(index) removes exactly the links whose source or
\* destination node id is the removed node's id, keeps every other link
\* unchanged and in order, and keeps every other node with its id.
C3_CascadeExact ==
    [][\A i \in 1..Len(m_nodes) :
        RemoveNode(i) =>
            LET id == m_nodes[i].m_id
                untouched(l) == ~LinkTouches(l, id)
            IN /\ m_links' = SelectSeq(m_links, untouched)
               /\ m_nodes' = RemoveAt(m_nodes, i)]_vars

\* C4: the source and the destination node id of every link are ids of
\* nodes in the node list.
C4_NoDanglingLinks ==
    \A k \in 1..Len(m_links) :
        /\ PinNodeId(m_links[k].from) \in NodeIds
        /\ PinNodeId(m_links[k].to) \in NodeIds

DistinctPositiveIds(nodes, counter) ==
    /\ \A i \in 1..Len(nodes) : nodes[i].m_id > 0 /\ nodes[i].m_id <= counter
    /\ \A i \in 1..Len(nodes), j \in 1..Len(nodes) :
            nodes[i].m_id = nodes[j].m_id => i = j

\* C5: node ids are pairwise distinct, positive and at most the counter;
\* within a graph the counter never decreases and a node that appears gets
\* an id above every id the counter had given out.
C5_UniqueIds ==
    /\ [](DistinctPositiveIds(m_nodes, node_counter_))
    /\ [][/\ node_counter_' >= node_counter_
          /\ \A id \in NodeIds' \ NodeIds : id > node_counter_]_vars

\* a node was removed, a node was created after it, and the graph went
\* through serialize and deserialize (the counter is ahead of the creations)
C5_Witness ==
    /\ Len(m_nodes) = 2
    /\ \E s \in CounterStarts :
            /\ m_nodes[1].m_id > s + 1
            /\ node_counter_ > s + 2

\* the graph is edited until it is saved
Editing == blob = <<>>

\* the graph is edited until it is saved, up to MaxItems table entries
Growing == Editing /\ Len(m_nodes) + Len(m_links) + Len(m_variables) < MaxItems

\* the file on disk is the current graph's and the asset compiler has read it
RoundTripDone == compiled.ok /\ blob = serialize(CurGraph)

\* C1: after serialize and deserialize into a fresh graph each Const node
\* has the same literal, each Switch node the same flag and each
\* GetVariable/SetVariable node the same variable index.
C1_ParamsRoundTrip ==
    RoundTripDone =>
        /\ Len(compiled.graph.nodes) = Len(m_nodes)
        /\ \A i \in 1..Len(m_nodes) :
            LET n == m_nodes[i]
                c == compiled.graph.nodes[i]
            IN /\ n.type = Type_CONST => c.m_value = n.m_value
               /\ n.type = Type_SWITCH => c.m_is_on = n.m_is_on
               /\ n.type \in {Type_GET_VARIABLE, Type_SET_VARIABLE} => c.m_var = n.m_var

TypeAndId(nodes) == [i \in 1..Len(nodes) |-> <<nodes[i].type, nodes[i].m_id>>]

\* C2: after serialize and deserialize into a fresh graph the sequence of
\* (node type, node id), the link list and the variable table are the same.
C2_StructureRoundTrip ==
    RoundTripDone =>
        /\ TypeAndId(compiled.graph.nodes) = TypeAndId(m_nodes)
        /\ compiled.graph.links = m_links
        /\ compiled.graph.variables = m_variables

C2_Witness ==
    /\ RoundTripDone
    /\ Len(m_nodes) = 2 /\ Len(m_links) = 2 /\ Len(m_variables) = 1
    /\ m_nodes[1].type # m_nodes[2].type
    /\ m_links[1] # m_links[2]
    /\ m_variables[1].name # 0 /\ m_variables[1].type # 0

(***************************************************************************)
(* kvm: the bytecode writer and the interpreter (external/kvm.c).          *)
(* The bytecode is held as a sequence of 32-bit words: every opcode and    *)
(* operand is four bytes wide (a 64-bit constant is two words), so the     *)
(* word at index i is the four bytes at byte offset 4 * (i - 1).           *)
(***************************************************************************)
KVM_OP_END == 0
KVM_OP_SYSCALL == 1
KVM_OP_CONST32 == 2
KVM_OP_CONST64 == 3
KVM_OP_POP == 4
KVM_OP_EQ == 5
KVM_OP_NEQ == 6
KVM_OP_LT == 7
KVM_OP_LTF == 8
KVM_OP_GT == 9
KVM_OP_GTF == 10
KVM_OP_ADD == 11
KVM_OP_ADDF == 12
KVM_OP_MUL == 13
KVM_OP_MULF == 14
KVM_OP_JMP == 15
KVM_OP_RET == 16
KVM_OP_CALL == 17
KVM_OP_GET_LOCAL == 18
KVM_OP_GET == 19
KVM_OP_SET == 20

\* kvm_bc_create_label stores KVM_INVALID_LABEL; no file of the repository
\* defines it. An unresolved label is taken to be the all-ones word.
KVM_INVALID_LABEL == -1

\* sizeof(KVM_OP), sizeof(kvm_u32), sizeof(kvm_label), sizeof(float)
WordBytes == 4

MinWord == -2147483647 - 1

\* the comparisons of two kvm_u32
U32Less(a, b) == IF (a < 0) = (b < 0) THEN a < b ELSE b < 0

\* Same shape as U32Add; a sum that does not fit 32 bits stays at 2^32 - 1.
U32Add_saturating(a, b) ==
    IF a >= 0 /\ b >= 0
      THEN IF a > 2147483647 - b THEN (a + MinWord) + (b + MinWord) ELSE a + b
      ELSE IF a < 0 /\ b < 0
             THEN 0 - 1
             ELSE IF a + b >= 0 THEN 0 - 1 ELSE a + b

\* a + b of two kvm_u32, modulo 2^32
U32Add(a, b) ==
    IF a >= 0 /\ b >= 0
      THEN IF a > 2147483647 - b THEN (a + MinWord) + (b + MinWord) ELSE a + b
      ELSE IF a < 0 /\ b < 0
             THEN IF a < MinWord - b THEN (a - MinWord) + (b - MinWord) ELSE a + b
             ELSE a + b

\* x << k of a kvm_u32, for k in 1..30
U32Shl(x, k) ==
    (x % (2 ^ (31 - k))) * (2 ^ k)
        + (IF (x \div (2 ^ (31 - k))) % 2 = 1 THEN MinWord ELSE 0)

\* x * y modulo 2^16 of two 16-bit halves
MulMod16(x, y) == (x * (y % 256) + ((x * (y \div 256)) % 256) * 256) % 65536

\* a * b of two kvm_u32, modulo 2^32, from the 16-bit halves of a and b
U32Mul(a, b) ==
    LET al == a % 65536
        ah == Shr16(a)
        bl == b % 65536
        bh == Shr16(b)
    IN U32Add(U32Add(al * (bl % 256), U32Shl(al * (bl \div 256), 8)),
              U32Shl((MulMod16(ah, bl) + MulMod16(al, bh)) % 65536, 16))

Pow2(k) == 2 ^ k

\* An IEEE-754 binary32 bit pattern: sign, biased exponent, fraction.
F32Neg(w) == w < 0
F32Mag(w) == IF w < 0 THEN w - MinWord ELSE w
F32Exp(w) == F32Mag(w) \div 8388608
F32Frac(w) == F32Mag(w) % 8388608
F32IsNaN(w) == F32Mag(w) > 2139095040

\* a < b of two floats: false when either is NaN, -0 equals +0, otherwise
\* the order of the sign-magnitude patterns
F32Key(w) == IF F32Neg(w) THEN 0 - F32Mag(w) ELSE F32Mag(w)
F32Less(a, b) == ~F32IsNaN(a) /\ ~F32IsNaN(b) /\ F32Key(a) < F32Key(b)

\* Float arithmetic is modelled exactly on NaN and on the integral values of
\* magnitude below 2^12 (their sums and products are exact in binary32).
F32Integral(w) ==
    \/ F32Mag(w) = 0
    \/ /\ F32Exp(w) >= 127 /\ F32Exp(w) <= 138
       /\ (8388608 + F32Frac(w)) % Pow2(150 - F32Exp(w)) = 0
F32Modelled(w) == F32IsNaN(w) \/ F32Integral(w)
F32Abs(w) == IF F32Mag(w) = 0 THEN 0 ELSE (8388608 + F32Frac(w)) \div Pow2(150 - F32Exp(w))
F32Log2(n) == CHOOSE e \in 0..24 : Pow2(e) <= n /\ n < Pow2(e + 1)
F32Encode(neg, abs) ==
    LET mag == IF abs = 0 THEN 0
               ELSE (127 + F32Log2(abs)) * 8388608
                        + (abs - Pow2(F32Log2(abs))) * Pow2(23 - F32Log2(abs))
    IN IF neg THEN MinWord + mag ELSE mag
F32NaN == 255 * 8388608 + 4194304       \* the quiet NaN
F32Signed(w) == IF F32Neg(w) THEN 0 - F32Abs(w) ELSE F32Abs(w)

\* a + b of two floats (round to nearest; exact here)
F32Add(a, b) ==
    IF F32IsNaN(a) \/ F32IsNaN(b) THEN F32NaN
    ELSE LET r == F32Signed(a) + F32Signed(b)
         IN IF r = 0 THEN F32Encode(F32Neg(a) /\ F32Neg(b), 0)
            ELSE F32Encode(r < 0, IF r < 0 THEN 0 - r ELSE r)

\* a * b of two floats
F32Mul(a, b) ==
    IF F32IsNaN(a) \/ F32IsNaN(b) THEN F32NaN
    ELSE F32Encode(F32Neg(a) # F32Neg(b), F32Abs(a) * F32Abs(b))

(***************************************************************************)
(* The bytecode writer.                                                    *)
(***************************************************************************)
\* Inputs of the writer and of the host.
F32One == F32Encode(FALSE, 1)           \* the bits of 1.0f
F32Two == F32Encode(FALSE, 2)           \* the bits of 2.0f
SimpleOps == {KVM_OP_END, KVM_OP_POP, KVM_OP_ADD, KVM_OP_ADDF, KVM_OP_MUL,
              KVM_OP_MULF, KVM_OP_RET, KVM_OP_EQ, KVM_OP_NEQ, KVM_OP_GT,
              KVM_OP_GTF, KVM_OP_LT, KVM_OP_LTF}
CompareOps == {KVM_OP_EQ, KVM_OP_NEQ, KVM_OP_LT, KVM_OP_GT, KVM_OP_LTF, KVM_OP_GTF}
LabelOps == {KVM_OP_JMP, KVM_OP_CALL}
U32Ops == {KVM_OP_JMP, KVM_OP_CALL, KVM_OP_GET, KVM_OP_GET_LOCAL, KVM_OP_SET,
           KVM_OP_SYSCALL, KVM_OP_CONST32}
ArgCounts == {1, 2}                     \* declared argument counts of a syscall
ConstWords == {1}                       \* operands of kvm_bc_const
ConstFloats == {F32One}                 \* operands of kvm_bc_const_float
Const64s == {<<1, 0>>}                  \* operands of kvm_bc_const64, low word first
F32MinusOne == F32Encode(TRUE, 1)       \* the bits of -1.0f, 0xBF800000
HostWords == {F32One, F32Two, F32MinusOne}  \* values the host pushes
Garbage == {0, F32One}                  \* contents of stack slots never written
SyscallResults == {<<>>, <<0>>}         \* what a callback may push with kvm_push
Capacities == {WordBytes, 3 * WordBytes * (MaxInstr + 1)}

\* the operands a caller passes to the writer of op
Operands(op) ==
    IF op \in LabelOps THEN 0 .. (Len(labels) - 1)
    ELSE IF op = KVM_OP_SYSCALL THEN ArgCounts
    ELSE IF op = KVM_OP_CONST32 THEN ConstWords
    ELSE {0}

\* writer->ip - writer->bytecode
Cursor == WordBytes * Len(bytecode)

Unplaced == [off |-> KVM_INVALID_LABEL, after |-> 0 - 1]

\* kvm_bc_start_write and kvm_init were called
InitKvm ==
    /\ m_nodes = <<>> /\ m_links = <<>> /\ m_variables = <<>>
    /\ node_counter_ = 0 /\ blob = <<>> /\ compiled = NoGraph /\ m_path = NoPath
    /\ generated = NoCode
    /\ NotCompiled
    /\ SceneIdle
    /\ bytecode = <<>>
    /\ capacity \in Capacities
    /\ labels = <<>>
    /\ emitted = <<>>
    /\ placed = <<>>
    /\ pc = "write"
    /\ stack = [s \in StackSlots |-> 0]
    /\ determined = {}
    /\ sp = 0
    /\ vm_sp = 0
    /\ ip = 0
    /\ env = [e \in EnvIdx |-> 0]
    /\ steps = 0
    /\ got = NoRead
    /\ other = NoOther

vmVars == <<stack, determined, sp, vm_sp, ip, env, steps, got, other>>

\* the writer appends the words ws of one instruction of opcode op
Write(op, arg, ws) ==
    /\ bytecode' = bytecode \o ws
    /\ emitted' = Append(emitted, [op |-> op, at |-> Cursor, arg |-> arg])

\* DEFINE_SIMPLE_OP_WRITER: kvm_bc_end, _pop, _add, _addf, _mul, _mulf, _ret,
\* _eq, _neq, _gt, _gtf, _lt, _ltf
kvm_bc_simple(op) ==
    /\ pc = "write"
    /\ Len(emitted) < MaxInstr
    /\ IF capacity < WordBytes
         THEN UNCHANGED <<bytecode, emitted>>
         ELSE Write(op, 0, <<op>>)
    /\ UNCHANGED <<sceneVars, graphVars, genVars, capacity, labels, placed, pc, vmVars>>

\* DEFINE_SIMPLE_OP_WRITER_U32: kvm_bc_jmp, _call, _get, _get_local, _set,
\* _syscall, _const
kvm_bc_u32(op, arg) ==
    /\ pc = "write"
    /\ Len(emitted) < MaxInstr
    /\ IF capacity < WordBytes + WordBytes
         THEN UNCHANGED <<bytecode, emitted>>
         ELSE Write(op, arg, <<op, arg>>)
    /\ UNCHANGED <<sceneVars, graphVars, genVars, capacity, labels, placed, pc, vmVars>>

kvm_bc_const_float(value) ==
    /\ pc = "write"
    /\ Len(emitted) < MaxInstr
    /\ IF capacity < WordBytes + WordBytes
         THEN UNCHANGED <<bytecode, emitted>>
         ELSE Write(KVM_OP_CONST32, value, <<KVM_OP_CONST32, value>>)
    /\ UNCHANGED <<sceneVars, graphVars, genVars, capacity, labels, placed, pc, vmVars>>

kvm_bc_const64(value) ==
    /\ pc = "write"
    /\ Len(emitted) < MaxInstr
    /\ IF capacity < WordBytes + 2 * WordBytes
         THEN UNCHANGED <<bytecode, emitted>>
         ELSE Write(KVM_OP_CONST64, value[1], <<KVM_OP_CONST64, value[1], value[2]>>)
    /\ UNCHANGED <<sceneVars, graphVars, genVars, capacity, labels, placed, pc, vmVars>>

kvm_bc_create_label ==
    /\ pc = "write"
    /\ Len(labels) < MaxLabels
    /\ labels' = Append(labels, KVM_INVALID_LABEL)
    /\ placed' = Append(placed, Unplaced)
    /\ UNCHANGED <<sceneVars, graphVars, genVars, bytecode, capacity, emitted, pc, vmVars>>

kvm_bc_place_label(label) ==
    /\ pc = "write"
    /\ label \in 0 .. (Len(labels) - 1)
    /\ labels' = [labels EXCEPT ![label + 1] = Cursor]
    /\ placed' = [placed EXCEPT ![label + 1] = [off |-> Cursor, after |-> Len(emitted)]]
    /\ UNCHANGED <<sceneVars, graphVars, genVars, bytecode, capacity, emitted, pc, vmVars>>

\* Same shape as PatchLabel; it leaves the label id in the operand.
PatchLabel_keepId(lbls, label) == label

\* kvm_bc_end_write, KVM_OP_JMP / KVM_OP_CALL: the operand, read as a label
\* id, is replaced by writer->labels[label]
PatchLabel(lbls, label) == lbls[label + 1]

RECURSIVE end_write_from(_, _, _)
\* the loop of kvm_bc_end_write, from word index i
end_write_from(bc, lbls, i) ==
    IF i > Len(bc) THEN bc
    ELSE IF bc[i] \in {KVM_OP_JMP, KVM_OP_CALL}
      THEN end_write_from([bc EXCEPT ![i + 1] = PatchLabel(lbls, bc[i + 1])], lbls, i + 2)
    ELSE IF bc[i] = KVM_OP_CONST64
      THEN end_write_from(bc, lbls, i + 3)
    ELSE IF bc[i] \in {KVM_OP_SYSCALL, KVM_OP_GET_LOCAL, KVM_OP_GET, KVM_OP_SET,
                       KVM_OP_CONST32}
      THEN end_write_from(bc, lbls, i + 2)
    ELSE end_write_from(bc, lbls, i + 1)

kvm_bc_end_write ==
    /\ pc = "write"
    /\ bytecode' = end_write_from(bytecode, labels, 1)
    /\ pc' = "ready"
    /\ UNCHANGED <<sceneVars, graphVars, genVars, capacity, labels, emitted, placed, vmVars>>

(***************************************************************************)
(* The host and the interpreter.                                           *)
(***************************************************************************)
\* kvm_push / kvm_push_float before the call
kvm_push(value) ==
    /\ pc = "ready"
    /\ vm_sp < MaxPush
    /\ stack' = [stack EXCEPT ![vm_sp] = value]
    /\ determined' = determined \cup {vm_sp}
    /\ vm_sp' = vm_sp + 1
    /\ UNCHANGED <<sceneVars, graphVars, genVars, bytecode, capacity, labels, emitted, placed,
                   pc, sp, ip, env, steps, got, other>>

\* the entry points a host may pass to kvm_call: the start of the bytecode
\* and the offsets of the placed labels
EntryPoints == {0} \cup {labels[l] : l \in {k \in 1..Len(labels) : labels[k] # KVM_INVALID_LABEL}}

\* kvm_call, up to the loop: ip = bytecode + label, sp = vm->sp
kvm_call(func) ==
    /\ pc = "ready"
    /\ pc' = "run"
    /\ ip' = func
    /\ sp' = vm_sp
    /\ steps' = 0
    /\ UNCHANGED <<sceneVars, graphVars, genVars, bytecode, capacity, labels, emitted, placed,
                   stack, determined, vm_sp, env, got, other>>

\* a byte offset at which four written bytes can be read
Readable(o) == o >= 0 /\ o % WordBytes = 0 /\ o \div WordBytes < Len(bytecode)
WordAt(o) == bytecode[(o \div WordBytes) + 1]

\* the opcode the loop is about to read
CurOp == IF Readable(ip) THEN WordAt(ip) ELSE 0 - 1

\* opcodes followed by one 32-bit operand, by a 64-bit operand
HasOperand(op) == op \in U32Ops
\* Same shape as OperandWords; the decode loop takes the operand of CONST64
\* for a 32-bit one.
OperandWords_const64AsU32(op) == IF HasOperand(op) \/ op = KVM_OP_CONST64 THEN 1 ELSE 0

OperandWords(op) == IF HasOperand(op) THEN 1 ELSE IF op = KVM_OP_CONST64 THEN 2 ELSE 0

\* Same shape as ReadSlots; RET copies the address before it decrements sp.
ReadSlots_retBeforeDecrement(op, arg) ==
    IF op = KVM_OP_RET THEN <<sp>>
    ELSE IF op = KVM_OP_SET THEN <<sp - 1>>
    ELSE IF op = KVM_OP_GET_LOCAL THEN <<arg>>
    ELSE IF op \in {KVM_OP_MUL, KVM_OP_MULF, KVM_OP_ADD, KVM_OP_ADDF,
                    KVM_OP_EQ, KVM_OP_NEQ, KVM_OP_GT, KVM_OP_LT, KVM_OP_GTF}
      THEN <<sp - 2, sp - 1>>
    ELSE IF op = KVM_OP_LTF THEN <<sp, sp + 1>>
    ELSE <<>>

\* the stack slots an instruction reads, the first operand first
ReadSlots(op, arg) ==
    IF op \in {KVM_OP_RET, KVM_OP_SET} THEN <<sp - 1>>
    ELSE IF op = KVM_OP_GET_LOCAL THEN <<arg>>
    ELSE IF op \in {KVM_OP_MUL, KVM_OP_MULF, KVM_OP_ADD, KVM_OP_ADDF,
                    KVM_OP_EQ, KVM_OP_NEQ, KVM_OP_GT, KVM_OP_LT, KVM_OP_GTF}
      THEN <<sp - 2, sp - 1>>
    ELSE IF op = KVM_OP_LTF THEN <<sp, sp + 1>>
    ELSE <<>>

\* the stack slots an instruction writes
WriteSlots(op, res) ==
    IF op \in {KVM_OP_CONST32, KVM_OP_CALL, KVM_OP_GET, KVM_OP_GET_LOCAL} THEN {sp}
    ELSE IF op = KVM_OP_CONST64 THEN {sp, sp + 1}
    ELSE IF op \in {KVM_OP_MUL, KVM_OP_MULF, KVM_OP_ADD, KVM_OP_ADDF} THEN {sp - 2}
    ELSE IF op = KVM_OP_SYSCALL THEN {sp + k - 1 : k \in 1 .. Len(res)}
    ELSE {}

Range(q) == {q[k] : k \in 1..Len(q)}

\* the condition under which a comparison opcode skips the following jump
Holds(op, a, b) ==
    IF op = KVM_OP_EQ THEN a = b
    ELSE IF op = KVM_OP_NEQ THEN a # b
    ELSE IF op = KVM_OP_GT THEN U32Less(b, a)
    ELSE IF op = KVM_OP_LT THEN U32Less(a, b)
    ELSE IF op = KVM_OP_GTF THEN F32Less(b, a)
    ELSE F32Less(a, b)

\* The body of the loop of kvm_call for opcode op with operand arg. A slot that was never written holds
\* whatever the memory held: the first read picks a value (g0, g1) and the
\* slot keeps it. An access outside the bytecode, the stack or the environment
\* is undefined behaviour; the run is then in state "undefined".
kvm_call_exec(op, arg, fetched, g0, g1, res) ==
    /\ LET next == ip + WordBytes
           rd == ReadSlots(op, arg)
           inStack == Range(rd) \cup WriteSlots(op, res) \subseteq StackSlots
           inEnv == op \in {KVM_OP_GET, KVM_OP_SET} => arg \in EnvIdx
           st == [s \in StackSlots |->
                    IF s \in determined THEN stack[s]
                    ELSE IF Len(rd) >= 1 /\ s = rd[1] THEN g0
                    ELSE IF Len(rd) >= 2 /\ s = rd[2] THEN g1
                    ELSE stack[s]]
           det == determined \cup (Range(rd) \cap StackSlots) \cup (WriteSlots(op, res) \cap StackSlots)
           a == IF Len(rd) >= 1 /\ rd[1] \in StackSlots THEN st[rd[1]] ELSE 0
           b == IF Len(rd) >= 2 /\ rd[2] \in StackSlots THEN st[rd[2]] ELSE 0
       IN IF ~(fetched /\ inStack /\ inEnv)
            THEN /\ pc' = "undefined"
                 /\ UNCHANGED <<stack, determined, sp, vm_sp, ip, env, steps>>
            ELSE
              /\ op \in {KVM_OP_ADDF, KVM_OP_MULF} => F32Modelled(a) /\ F32Modelled(b)
              /\ steps' = steps + 1
              /\ determined' = det
              /\ pc' = IF op = KVM_OP_END THEN "done" ELSE "run"
              /\ ip' = IF op \in {KVM_OP_JMP, KVM_OP_CALL} THEN arg
                       ELSE IF op = KVM_OP_RET THEN a
                       ELSE IF op \in CompareOps /\ Holds(op, a, b)
                         THEN next + WordBytes + WordBytes
                       ELSE next + OperandWords(op) * WordBytes
              /\ sp' = IF op = KVM_OP_SYSCALL THEN (sp + Len(res)) - arg * WordBytes
                       ELSE IF op \in {KVM_OP_CONST32, KVM_OP_CALL, KVM_OP_GET,
                                       KVM_OP_GET_LOCAL} THEN sp + 1
                       ELSE IF op = KVM_OP_CONST64 THEN sp + 2
                       ELSE IF op \in {KVM_OP_RET, KVM_OP_POP, KVM_OP_SET, KVM_OP_MUL,
                                       KVM_OP_MULF, KVM_OP_ADD, KVM_OP_ADDF} THEN sp - 1
                       ELSE IF op \in CompareOps \ {KVM_OP_LTF} THEN sp - 2
                       ELSE sp
              /\ vm_sp' = IF op = KVM_OP_SYSCALL THEN sp + Len(res) ELSE vm_sp
              /\ env' = IF op = KVM_OP_SET THEN [env EXCEPT ![arg] = a] ELSE env
              /\ stack' =
                    IF op = KVM_OP_SYSCALL
                      THEN [s \in StackSlots |->
                              IF s \in WriteSlots(op, res) THEN res[s - sp + 1] ELSE st[s]]
                    ELSE IF op = KVM_OP_CONST32 THEN [st EXCEPT ![sp] = arg]
                    ELSE IF op = KVM_OP_CONST64
                      THEN [st EXCEPT ![sp] = arg, ![sp + 1] = WordAt(next + WordBytes)]
                    ELSE IF op = KVM_OP_CALL THEN [st EXCEPT ![sp] = next + WordBytes]
                    ELSE IF op = KVM_OP_GET THEN [st EXCEPT ![sp] = env[arg]]
                    ELSE IF op = KVM_OP_GET_LOCAL THEN [st EXCEPT ![sp] = a]
                    ELSE IF op = KVM_OP_MUL THEN [st EXCEPT ![sp - 2] = U32Mul(a, b)]
                    ELSE IF op = KVM_OP_MULF THEN [st EXCEPT ![sp - 2] = F32Mul(a, b)]
                    ELSE IF op = KVM_OP_ADD THEN [st EXCEPT ![sp - 2] = U32Add(a, b)]
                    ELSE IF op = KVM_OP_ADDF THEN [st EXCEPT ![sp - 2] = F32Add(a, b)]
                    ELSE st
    /\ UNCHANGED <<sceneVars, graphVars, genVars, bytecode, capacity, labels, emitted, placed, got,
                   other>>

\* the values a stack slot may turn out to hold when it is first read
SlotGarbage(rd, k) ==
    IF Len(rd) >= k /\ rd[k] \in StackSlots \ determined THEN Garbage ELSE {0}

kvm_call_step ==
    /\ pc = "run"
    /\ steps < MaxSteps
    /\ LET op == CurOp
           fetched == /\ Readable(ip)
                      /\ \A k \in 1..OperandWords(op) : Readable(ip + k * WordBytes)
           arg == IF fetched /\ OperandWords(op) > 0 THEN WordAt(ip + WordBytes) ELSE 0
           rd == ReadSlots(op, arg)
       IN \E g0 \in SlotGarbage(rd, 1), g1 \in SlotGarbage(rd, 2) :
            \E res \in IF op = KVM_OP_SYSCALL THEN SyscallResults ELSE {<<>>} :
                kvm_call_exec(op, arg, fetched, g0, g1, res)

(***************************************************************************)
(* The accessors kvm_get, kvm_get_ptr, kvm_get64 and kvm_get_float. A      *)
(* result is the sequence of the 32-bit words copied, the low word first.  *)
(***************************************************************************)
Accessors == {"kvm_get", "kvm_get_ptr", "kvm_get64", "kvm_get_float"}
AccessIdxs == {0 - 2, 0 - 1, 0, 1}         \* the idx arguments of the host

\* sizeof(res) / sizeof(kvm_u32): void* and kvm_u64 are eight bytes wide
ResultWords(fn) == IF fn \in {"kvm_get_ptr", "kvm_get64"} THEN 2 ELSE 1

\* the accessors with the branch on idx >= 0 (kvm_get_float has none)
ReadsEnvironment(fn, idx) == fn # "kvm_get_float" /\ idx >= 0

\* the slots memcpy reads: of the environment, or of the stack from sp + idx
AccessSlots(fn, idx) ==
    {(IF ReadsEnvironment(fn, idx) THEN idx ELSE vm_sp + idx) + k :
        k \in 0 .. (ResultWords(fn) - 1)}

\* One call of an accessor by the host after kvm_call returned. A stack
\* slot that was never written holds whatever the memory held (g); a read
\* outside the stack or the environment block is undefined behaviour.
kvm_get(fn, idx, g) ==
    /\ pc = "done"
    /\ got = NoRead
    /\ LET slots == AccessSlots(fn, idx)
           base == IF ReadsEnvironment(fn, idx) THEN idx ELSE vm_sp + idx
           fresh == IF ReadsEnvironment(fn, idx) THEN {} ELSE slots \ determined
           st == [s \in StackSlots |-> IF s \in fresh THEN g ELSE stack[s]]
       IN IF ~(slots \subseteq (IF ReadsEnvironment(fn, idx) THEN EnvIdx ELSE StackSlots))
            THEN /\ g = 0
                 /\ pc' = "undefined"
                 /\ UNCHANGED <<stack, determined, got>>
            ELSE /\ fresh = {} => g = 0
                 /\ stack' = st
                 /\ determined' = determined \cup fresh
                 /\ got' = [fn |-> fn, idx |-> idx,
                            value |-> [k \in 1..ResultWords(fn) |->
                                         IF ReadsEnvironment(fn, idx)
                                           THEN env[base + k - 1]
                                           ELSE st[base + k - 1]]]
                 /\ pc' = pc
    /\ UNCHANGED <<sceneVars, graphVars, genVars, bytecode, capacity, labels, emitted, placed,
                   sp, vm_sp, ip, env, steps, other>>

NextKvm ==
    \/ \E op \in SimpleOps : kvm_bc_simple(op)
    \/ \E op \in U32Ops : \E arg \in Operands(op) : kvm_bc_u32(op, arg)
    \/ \E v \in ConstFloats : kvm_bc_const_float(v)
    \/ \E v \in Const64s : kvm_bc_const64(v)
    \/ kvm_bc_create_label
    \/ \E l \in 0 .. (MaxLabels - 1) : kvm_bc_place_label(l)
    \/ kvm_bc_end_write
    \/ \E v \in HostWords : kvm_push(v)
    \/ \E f \in EntryPoints : kvm_call(f)
    \/ kvm_call_step
    \/ \E fn \in Accessors, idx \in AccessIdxs, g \in Garbage : kvm_get(fn, idx, g)

SpecKvm == InitKvm /\ [][NextKvm]_vars

(***************************************************************************)
(* Claims about kvm, under SpecKvm.                                        *)
(***************************************************************************)
\* the emitted JMP / CALL instructions whose label was placed after they
\* were written
ForwardJumps ==
    {k \in 1..Len(emitted) :
        /\ emitted[k].op \in LabelOps
        /\ placed[emitted[k].arg + 1].after >= k}

\* the word index of the operand of emitted instruction k
OperandIndex(k) == (emitted[k].at \div WordBytes) + 2

\* C6: after kvm_bc_end_write the operand of every JMP / CALL that was
\* written before its label was placed is the byte offset the write cursor
\* had at the placement, and kvm_call executing such a JMP continues at the
\* instruction that was written right after the placement.
C6_ForwardLabelResolution ==
    /\ [](pc # "write" =>
            \A k \in ForwardJumps :
                bytecode[OperandIndex(k)] = placed[emitted[k].arg + 1].off)
    /\ [][\A k \in ForwardJumps :
            /\ pc = "run" /\ pc' = "run"
            /\ emitted[k].op = KVM_OP_JMP /\ ip = emitted[k].at
            /\ placed[emitted[k].arg + 1].after < Len(emitted)
            => ip' = emitted[placed[emitted[k].arg + 1].after + 1].at]_vars

\* A forward jump over nothing was written, finalised and executed: the run
\* started at offset 0 is at the END that follows the placement.
C6_Witness ==
    /\ pc = "run" /\ steps = 1
    /\ Len(emitted) = 2
    /\ emitted[1] = [op |-> KVM_OP_JMP, at |-> 0, arg |-> 0]
    /\ emitted[2] = [op |-> KVM_OP_END, at |-> 8, arg |-> 0]
    /\ placed = <<[off |-> 8, after |-> 1]>>
    /\ bytecode = <<KVM_OP_JMP, 8, KVM_OP_END>>
    /\ ip = 8

\* C7: a syscall whose callback pushes nothing lowers the stack pointer by
\* exactly its declared argument count.
C7_SyscallPopsArgCount ==
    [][/\ pc = "run" /\ pc' = "run"
       /\ CurOp = KVM_OP_SYSCALL
       /\ vm_sp' = sp
       => sp' = sp - WordAt(ip + WordBytes)]_vars

\* C8: a comparison executed with a pushed first and b pushed second skips
\* the following JMP exactly when its relation holds on a and b.
C8_SkipJumpOnTrue ==
    [][/\ pc = "run" /\ pc' = "run"
       /\ CurOp \in CompareOps
       /\ {sp - 2, sp - 1} \subseteq determined
       /\ Readable(ip + WordBytes) /\ WordAt(ip + WordBytes) = KVM_OP_JMP
       => ip' = IF Holds(CurOp, stack[sp - 2], stack[sp - 1])
                  THEN ip + 3 * WordBytes
                  ELSE ip + WordBytes]_vars

\* C9: every comparison instruction lowers the stack pointer by two,
\* whether or not it skips the jump.
C9_ComparePopsTwo ==
    [][/\ pc = "run" /\ pc' = "run"
       /\ CurOp \in CompareOps
       => sp' = sp - 2]_vars

(***************************************************************************)
(* Code generation: Node::generate of every node type. The output stream   *)
(* is held as a sequence of instructions [op, arg].                        *)
(***************************************************************************)
WasmOp_END == 11
WasmOp_CALL == 16
WasmOp_LOCAL_GET == 32
WasmOp_GLOBAL_GET == 35
WasmOp_GLOBAL_SET == 36
WasmOp_I32_CONST == 65
WasmOp_I64_CONST == 66
WasmOp_F32_CONST == 67
WasmOp_F64_CONST == 68
WasmOp_I32_ADD == 106
WasmOp_I32_MUL == 108
WasmOp_F32_ADD == 146
WasmOp_F32_MUL == 148
WASMLumixAPI_SET_YAW == 0
WASMLumixAPI_SET_PROPERTY_FLOAT == 1
WASMLumixAPI_GET_PROPERTY_FLOAT == 2
WASMGlobals_SELF == 0
WASMGlobals_USER == 1

\* blob.write(u8(0)): the count of locals that starts a function body
NumLocals == 0 - 1

Op(op, arg) == [op |-> op, arg |-> arg]

\* What one call of generate did: the instructions appended, the nodes whose
\* m_error was set, whether ASSERT(false) was reached, whether the
\* recursion came back to a call that is still running (it never returns),
\* and the nodes generate was invoked on.
Emit(ops) ==
    [code |-> ops, errors |-> {}, asserted |-> FALSE, diverges |-> FALSE, invoked |-> {}]

\* a missing input that leaves no diagnostic
SetError_noDiagnostic(id) == Emit(<<>>)

SetError(id) == [Emit(<<>>) EXCEPT !.errors = {id}]
AssertFalse == [Emit(<<>>) EXCEPT !.asserted = TRUE]
NoReturn == [Emit(<<>>) EXCEPT !.diverges = TRUE]
Then(r1, r2) ==
    IF r1.diverges THEN r1
    ELSE [code |-> r1.code \o r2.code,
          invoked |-> r1.invoked \cup r2.invoked,
          errors |-> r1.errors \cup r2.errors,
          asserted |-> r1.asserted \/ r2.asserted,
          diverges |-> r2.diverges]

MinOf(S) == CHOOSE m \in S : \A x \in S : m <= x

\* Graph::getNode: the index of the first node with this id, 0 for nullptr
getNode(g, id) ==
    LET is == {i \in 1..Len(g.nodes) : g.nodes[i].m_id = id}
    IN IF is = {} THEN 0 ELSE MinOf(is)

\* Node::getInputNode: the first link into input pin idx of node n
getInputNode(g, n, idx) ==
    LET is == {i \in 1..Len(g.links) : g.links[i].to = InputPinId(n.m_id, idx)}
    IN IF is = {} THEN [node |-> 0, output_idx |-> 0]
       ELSE [node |-> getNode(g, NodeOfPin(g.links[MinOf(is)].from)),
             output_idx |-> Shr16(g.links[MinOf(is)].from)]

\* Node::getOutputNode: the first link out of output pin idx of node n
getOutputNode(g, n, idx) ==
    LET is == {i \in 1..Len(g.links) :
                    /\ NodeOfPin(g.links[i].from) = n.m_id
                    /\ PinOfPin(g.links[i].from) = idx}
    IN IF is = {} THEN [node |-> 0, input_idx |-> 0]
       ELSE [node |-> getNode(g, NodeOfPin(g.links[MinOf(is)].to)),
             input_idx |-> Shr16(g.links[MinOf(is)].to)]

\* getOutputType never returns for a data cycle
TypeNoReturn == 0 - 1

RECURSIVE getOutputType(_, _, _, _)
\* Node::getOutputType of node i; path holds the nodes whose getOutputType
\* is running, oob is what a read past the end of the variable table yields
getOutputType(g, i, path, oob) ==
    LET n == g.nodes[i]
        n0 == getInputNode(g, n, 0)
    IN IF i \in path THEN TypeNoReturn
       ELSE IF n.type \in {Type_ADD, Type_MUL, Type_EQ, Type_NEQ, Type_GT, Type_LT,
                           Type_GTE, Type_LTE}
         THEN IF n0.node # 0 THEN getOutputType(g, n0.node, path \cup {i}, oob)
              ELSE ValueType_U32
       ELSE IF n.type = Type_SELF THEN ValueType_ENTITY
       ELSE IF n.type \in {Type_GET_PROPERTY, Type_MOUSE_MOVE, Type_UPDATE}
         THEN ValueType_FLOAT
       ELSE IF n.type = Type_GET_VARIABLE
         THEN IF n.m_var < Len(g.variables) THEN g.variables[n.m_var + 1].type
              ELSE oob
       ELSE ValueType_U32

\* reflection::getPropertyHash, atof: the words standing for a component, a
\* property name and a value text are small numbers
getPropertyHash(cmp, prop) == cmp * 65536 + prop
atof(value) == F32Encode(value < 0, IF value < 0 THEN 0 - value ELSE value)

RECURSIVE generate(_, _, _, _, _)
RECURSIVE generateSequence(_, _, _, _, _)

\* SequenceNode::generate, from flow output k on
generateSequence(g, i, k, path, oob) ==
    LET o == getOutputNode(g, g.nodes[i], k)
    IN IF o.node = 0 THEN Emit(<<>>)
       ELSE Then(generate(g, o.node, 0, path, oob),
                 generateSequence(g, i, k + 1, path, oob))

\* Node::generate of node i for output_idx; path holds the calls that are
\* running
generate(g, i, output_idx, path, oob) ==
    LET n == g.nodes[i]
        p == path \cup {<<i, output_idx>>}
        in0 == getInputNode(g, n, 0)
        in1 == getInputNode(g, n, 1)
        in2 == getInputNode(g, n, 2)
        out0 == getOutputNode(g, n, 0)
        out1 == getOutputNode(g, n, 1)
        Operand(o) == generate(g, o.node, o.output_idx, p, oob)
        Flow(o) == IF o.node = 0 THEN Emit(<<>>)
                   ELSE generate(g, o.node, o.input_idx, p, oob)
        Body == Then(Then(Emit(<<Op(NumLocals, 0)>>), Flow(out0)),
                     Emit(<<Op(WasmOp_END, 0)>>))
        Local(k) == Emit(<<Op(WasmOp_LOCAL_GET, k)>>)
        type0 == getOutputType(g, in0.node, {}, oob)
        IsFloat == type0 = ValueType_FLOAT
        r ==
          IF <<i, output_idx>> \in path THEN NoReturn
       ELSE IF n.type \in {Type_ADD, Type_MUL}
         THEN IF in0.node = 0 \/ in1.node = 0 THEN SetError(n.m_id)
              ELSE Then(Then(Operand(in0), Operand(in1)),
                        IF type0 = TypeNoReturn THEN NoReturn
                        ELSE Emit(<<Op(IF n.type = Type_ADD
                                         THEN IF IsFloat THEN WasmOp_F32_ADD
                                              ELSE WasmOp_I32_ADD
                                         ELSE IF IsFloat THEN WasmOp_F32_MUL
                                              ELSE WasmOp_I32_MUL, 0)>>))
       ELSE IF n.type \in {Type_EQ, Type_NEQ, Type_GT, Type_LT, Type_GTE, Type_LTE}
         THEN Emit(<<>>)
       ELSE IF n.type = Type_IF
         THEN IF out0.node = 0 \/ out1.node = 0 \/ in1.node = 0 THEN SetError(n.m_id)
              ELSE Emit(<<>>)
       ELSE IF n.type = Type_SEQUENCE THEN generateSequence(g, i, 0, p, oob)
       ELSE IF n.type = Type_SELF THEN Emit(<<Op(WasmOp_GLOBAL_GET, WASMGlobals_SELF)>>)
       ELSE IF n.type = Type_CALL THEN Emit(<<>>)
       ELSE IF n.type = Type_SET_YAW
         THEN IF in1.node = 0 \/ in2.node = 0 THEN SetError(n.m_id)
              ELSE Then(Then(Then(Operand(in1), Operand(in2)),
                             Emit(<<Op(WasmOp_CALL, WASMLumixAPI_SET_YAW)>>)),
                        Flow(out0))
       ELSE IF n.type = Type_CONST THEN Emit(<<Op(WasmOp_F32_CONST, n.m_value)>>)
       ELSE IF n.type = Type_SWITCH THEN Flow(IF n.m_is_on THEN out0 ELSE out1)
       ELSE IF n.type = Type_KEY_INPUT
         THEN IF output_idx = 0 THEN Then(Body, Local(0))
              ELSE IF output_idx = 1 THEN Local(0)
              ELSE AssertFalse
       ELSE IF n.type = Type_MOUSE_MOVE
         THEN IF output_idx = 0 THEN Then(Body, Local(0))
              ELSE IF output_idx = 1 THEN Local(0)
              ELSE IF output_idx = 2 THEN Local(1)
              ELSE AssertFalse
       ELSE IF n.type \in {Type_VEC3, Type_YAW_TO_DIR} THEN Emit(<<>>)
       ELSE IF n.type = Type_START THEN Body
       ELSE IF n.type = Type_UPDATE
         THEN IF output_idx = 0 THEN Body ELSE Local(0)
       ELSE IF n.type = Type_SET_VARIABLE
         THEN IF in1.node = 0 THEN SetError(n.m_id)
              ELSE Then(Then(Operand(in1),
                             Emit(<<Op(WasmOp_GLOBAL_SET, n.m_var + WASMGlobals_USER)>>)),
                        Flow(out0))
       ELSE IF n.type = Type_GET_VARIABLE
         THEN Emit(<<Op(WasmOp_GLOBAL_GET, n.m_var + WASMGlobals_USER)>>)
       ELSE IF n.type = Type_GET_PROPERTY
         THEN IF in0.node = 0 THEN SetError(n.m_id)
              ELSE Then(Operand(in0),
                        Emit(<<Op(WasmOp_I64_CONST, getPropertyHash(n.cmp, n.prop)),
                               Op(WasmOp_CALL, WASMLumixAPI_GET_PROPERTY_FLOAT)>>))
       ELSE \* Type_SET_PROPERTY
            IF in1.node = 0 THEN SetError(n.m_id)
            ELSE Then(Then(Then(Then(Operand(in1),
                        Emit(<<Op(WasmOp_I64_CONST, getPropertyHash(n.cmp, n.prop))>>)),
                        IF in2.node # 0 THEN Operand(in2)
                        ELSE Emit(<<Op(WasmOp_F32_CONST, atof(n.value))>>)),
                        Emit(<<Op(WasmOp_CALL, WASMLumixAPI_SET_PROPERTY_FLOAT)>>)),
                      Flow(out0))
    IN [r EXCEPT !.invoked = @ \cup {i}]

(***************************************************************************)
(* Graph::generate: the exports, the globals and the code section of the   *)
(* module.                                                                 *)
(***************************************************************************)
Header_MAGIC == 1601397618      \* ScriptResource::Header::MAGIC, '_scr'
WASM_MAGIC == 1836278016        \* 0x6d736100
WASMType_F64 == 124
WASMType_F32 == 125
WASMType_I64 == 126
WASMType_I32 == 127

\* the addExport calls of Graph::generate, in their order
ExportTable ==
    <<[type |-> Type_UPDATE, name |-> "update", args |-> <<WASMType_F32>>],
      [type |-> Type_MOUSE_MOVE, name |-> "onMouseMove",
       args |-> <<WASMType_F32, WASMType_F32>>],
      [type |-> Type_KEY_INPUT, name |-> "onKeyEvent", args |-> <<WASMType_I32>>],
      [type |-> Type_START, name |-> "start", args |-> <<>>]>>

\* Graph::addExport: the first node of the type is exported, if there is one
addExport(g, exports, e) ==
    LET is == {i \in 1..Len(g.nodes) : g.nodes[i].type = e.type}
    IN IF is = {} THEN exports
       ELSE Append(exports, [name |-> e.name, node |-> MinOf(is), args |-> e.args,
                             code |-> <<>>])

RECURSIVE addExports(_, _, _)
addExports(g, exports, k) ==
    IF k > Len(ExportTable) THEN exports
    ELSE addExports(g, addExport(g, exports, ExportTable[k]), k + 1)

RECURSIVE addGlobals(_, _, _)
\* writer.addGlobal for "self" and for the variables from entry k on: the
\* list of globals and whether the default case (ASSERT(false)) was reached
addGlobals(g, k, acc) ==
    IF k > Len(g.variables) THEN acc
    ELSE LET t == g.variables[k].type
         IN addGlobals(g, k + 1,
                IF t \in {ValueType_U32, ValueType_I32}
                  THEN [acc EXCEPT !.globals = Append(@, WASMType_I32)]
                ELSE IF t = ValueType_FLOAT
                  THEN [acc EXCEPT !.globals = Append(@, WASMType_F32)]
                ELSE [acc EXCEPT !.asserted = TRUE])

RECURSIVE writeCode(_, _, _, _, _)
\* WASMWriter::write, the code section: generate(func_blob, graph, 0) of
\* every export's node, in the order of the exports
writeCode(g, exports, k, oob, acc) ==
    IF k > Len(exports) \/ acc.diverges THEN acc
    ELSE LET r == generate(g, exports[k].node, 0, {}, oob)
         IN writeCode(g, exports, k + 1, oob,
                [acc EXCEPT !.exports[k].code = r.code,
                            !.invoked = @ \cup r.invoked,
                            !.errors = @ \cup r.errors,
                            !.asserted = @ \/ r.asserted,
                            !.diverges = r.diverges])

\* Graph::generate: what it wrote; written is FALSE when a generate call
\* never returned
Graph_generate(g, oob) ==
    LET exports == addExports(g, <<>>, 1)
        gl == addGlobals(g, 1, [globals |-> <<WASMType_I32>>, asserted |-> FALSE])
        r == writeCode(g, exports, 1, oob,
                [written |-> TRUE, head |-> <<Header_MAGIC, 0, WASM_MAGIC, 1>>,
                 exports |-> exports, globals |-> gl.globals, errors |-> {},
                 invoked |-> {}, asserted |-> gl.asserted, diverges |-> FALSE])
    IN IF r.diverges THEN [r EXCEPT !.written = FALSE, !.head = <<>>] ELSE r

\* the compile of the editor's graph
GraphGenerate(oob) ==
    /\ wasm' = Graph_generate(CurGraph, oob)
    /\ wasm' # wasm
    /\ run' = NoRun
    /\ UNCHANGED <<graphVars, generated, resource, kvmVars, sceneVars>>

\* Inputs of the generation: the node kinds placed, the output_idx a caller
\* passes (0 from an entry point, pin | 0x8000 from getInputNode), and what a
\* read past the variable table yields.
GenTypes == {Type_CONST, Type_SELF, Type_ADD, Type_MUL, Type_EQ, Type_GET_PROPERTY,
             Type_START, Type_SEQUENCE}
OutputIdxs == {0, 32768}
StaleTypes == {ValueType_U32, ValueType_FLOAT}

\* VisualScriptAssetPlugin::compile(src): a file with the extension wasm is
\* wrapped in a header; any other file is read into a fresh Graph, the graph
\* is compiled and the module is written as the compiled resource.  The
\* result of writeCompiledResource is returned.  A generate call that does
\* not return leaves compile without a return.
Compile(is_wasm, readable, oob, io) ==
    /\ blob # <<>>
    /\ compiled = NoGraph
    /\ resource = NoResource
    /\ IF ~readable
         THEN /\ resource' = [returned |-> "false", written |-> FALSE, data |-> NoModule]
              /\ compiled' = compiled
       ELSE IF is_wasm
         THEN /\ resource' = [returned |-> IF io THEN "true" ELSE "false", written |-> io,
                              data |-> [NoModule EXCEPT !.written = TRUE,
                                                        !.head = <<Header_MAGIC, 0>> \o blob]]
              /\ compiled' = compiled
       ELSE LET d == deserialize(EmptyGraph, blob)
                r == Graph_generate(d.graph, oob)
            IN /\ compiled' = d
               /\ resource' =
                    IF ~d.ok
                      THEN [returned |-> "false", written |-> FALSE, data |-> NoModule]
                    ELSE IF r.diverges
                      THEN [returned |-> "never", written |-> FALSE, data |-> r]
                    ELSE [returned |-> IF io THEN "true" ELSE "false", written |-> io,
                          data |-> r]
    /\ UNCHANGED <<m_nodes, m_links, m_variables, node_counter_, blob, m_path,
                   generated, wasm, run, kvmVars, sceneVars>>

(***************************************************************************)
(* SpecParams: nodes with parameters and the variable table are edited,    *)
(* the graph is saved, and the asset compiler reads the file into a fresh  *)
(* graph.  SpecRoundTrip: the same with nodes, links and the variable      *)
(* table.                                                                  *)
(***************************************************************************)
NextParams ==
    \/ Editing /\ \E t \in ParamTypes, p \in Positions : AddNode(t, p)
    \/ Editing /\ \E t \in {Type_GET_VARIABLE, Type_SET_VARIABLE},
                     v \in 0..(Len(m_variables) - 1), p \in Positions :
                        AddVariableNode(t, v, p)
    \/ Editing /\ \E i \in 1..Len(m_nodes), v \in Literals : EditConst(i, v)
    \/ Editing /\ \E i \in 1..Len(m_nodes) : ToggleSwitch(i)
    \/ Editing /\ \E t \in VarTypes : AddVariable(t)
    \/ Editing /\ \E i \in 1..Len(m_variables), nm \in VarNames, t \in VarTypes :
                        EditVariable(i, nm, t)
    \/ Editing /\ \E i \in 1..Len(m_variables) : DeleteVariable(i)
    \/ Save
    \/ \E is_wasm \in BOOLEAN, readable \in BOOLEAN, oob \in StaleTypes, io \in BOOLEAN :
            Compile(is_wasm, readable, oob, io)

SpecParams == InitGraph /\ [][NextParams]_vars

NextRoundTrip ==
    \/ Growing /\ \E t \in LinkedTypes, p \in Positions : AddNode(t, p)
    \/ Growing /\ \E a \in 1..Len(m_nodes), b \in 1..Len(m_nodes),
                     op \in PinRange, inp \in PinRange : CreateLink(a, op, b, inp)
    \/ Growing /\ \E t \in VarTypes : AddVariable(t)
    \/ Editing /\ \E i \in 1..Len(m_variables), nm \in VarNames, t \in VarTypes :
                        EditVariable(i, nm, t)
    \/ Editing /\ \E i \in 1..Len(m_variables) : DeleteVariable(i)
    \/ Save
    \/ \E is_wasm \in BOOLEAN, readable \in BOOLEAN, oob \in StaleTypes, io \in BOOLEAN :
            Compile(is_wasm, readable, oob, io)

SpecRoundTrip == InitGraph /\ [][NextRoundTrip]_vars

InitGen ==
    /\ m_nodes = <<>> /\ m_links = <<>> /\ m_variables = <<>>
    /\ node_counter_ = 0
    /\ blob = <<>>
    /\ compiled = NoGraph
    /\ m_path = NoPath
    /\ generated = NoCode
    /\ NotCompiled
    /\ SceneIdle
    /\ KvmIdle

\* m_nodes[i]->generate(blob, graph, output_idx) on an empty stream
GenerateNode(i, output_idx, oob) ==
    /\ i \in 1..Len(m_nodes)
    /\ LET r == generate(CurGraph, i, output_idx, {}, oob)
       IN generated' = [node |-> m_nodes[i].m_id, output_idx |-> output_idx,
                        code |-> r.code, errors |-> r.errors,
                        asserted |-> r.asserted, diverges |-> r.diverges]
    /\ UNCHANGED <<graphVars, wasm, run, resource, kvmVars, sceneVars>>

NotGenerated == generated = NoCode /\ NotCompiled

NextGen ==
    \/ NotGenerated /\ \E t \in GenTypes, pos \in Positions : AddNode(t, pos)
    \/ NotGenerated /\ \E a \in 1..Len(m_nodes), b \in 1..Len(m_nodes),
                          op \in PinRange, inp \in PinRange : CreateLink(a, op, b, inp)
    \/ \E i \in 1..Len(m_nodes), idx \in OutputIdxs, oob \in StaleTypes :
            GenerateNode(i, idx, oob)
    \/ \E oob \in StaleTypes : GraphGenerate(oob)

SpecGen == InitGen /\ [][NextGen]_vars

\* the values an instruction pushes minus the values it pops; the imports
\* are setYaw(i32, f32), setPropertyFloat(i32, i64, f32) and
\* getPropertyFloat(i32, i64) -> f32
StackEffect(ins) ==
    IF ins.op \in {WasmOp_I32_CONST, WasmOp_I64_CONST, WasmOp_F32_CONST,
                   WasmOp_F64_CONST, WasmOp_LOCAL_GET, WasmOp_GLOBAL_GET} THEN 1
    ELSE IF ins.op \in {WasmOp_GLOBAL_SET, WasmOp_I32_ADD, WasmOp_I32_MUL,
                        WasmOp_F32_ADD, WasmOp_F32_MUL} THEN 0 - 1
    ELSE IF ins.op = WasmOp_CALL
      THEN IF ins.arg = WASMLumixAPI_SET_YAW THEN 0 - 2
           ELSE IF ins.arg = WASMLumixAPI_SET_PROPERTY_FLOAT THEN 0 - 3
           ELSE 0 - 1
    ELSE 0

RECURSIVE NetStackEffect(_)
NetStackEffect(code) ==
    IF code = <<>> THEN 0 ELSE StackEffect(Head(code)) + NetStackEffect(Tail(code))

DataKinds == {Type_CONST, Type_SELF, Type_GET_VARIABLE, Type_GET_PROPERTY, Type_ADD,
              Type_MUL, Type_EQ, Type_NEQ, Type_LT, Type_GT, Type_LTE, Type_GTE}

\* the input pins that carry the operands of a data-producing node
OperandPins(n) ==
    IF n.type \in {Type_CONST, Type_SELF, Type_GET_VARIABLE} THEN {}
    ELSE IF n.type = Type_GET_PROPERTY THEN {0}
    ELSE {0, 1}

RECURSIVE OperandsConnected(_, _, _)
\* node i is a data-producing node and, down to the leaves, every operand
\* is fed by a data-producing node (no cycle)
OperandsConnected(g, i, path) ==
    /\ i # 0 /\ i \notin path
    /\ g.nodes[i].type \in DataKinds
    /\ \A pin \in OperandPins(g.nodes[i]) :
            OperandsConnected(g, getInputNode(g, g.nodes[i], pin).node, path \cup {i})

\* C10: the instructions generated for a data-producing node whose operands
\* are all connected leave exactly one value on the stack.
C10_BalancedEmission ==
    [][\A i \in 1..Len(m_nodes), idx \in OutputIdxs, oob \in StaleTypes :
            GenerateNode(i, idx, oob) /\ OperandsConnected(CurGraph, i, {})
            => NetStackEffect(generated'.code) = 1]_vars

(***************************************************************************)
(* The module instance: the runtime instantiates the module written by     *)
(* Graph::generate and calls its exports. A function body is checked as    *)
(* the binary format requires (operand types against the instruction, the  *)
(* body closed by its last END) before it runs.                            *)
(***************************************************************************)
Invalid == <<0 - 1>>

\* the parameter and result types of the imported functions
ImportArgs(f) ==
    IF f = WASMLumixAPI_SET_YAW THEN <<WASMType_I32, WASMType_F32>>
    ELSE IF f = WASMLumixAPI_SET_PROPERTY_FLOAT
      THEN <<WASMType_I32, WASMType_I64, WASMType_F32>>
    ELSE <<WASMType_I32, WASMType_I64>>

ImportResult(f) == IF f = WASMLumixAPI_GET_PROPERTY_FLOAT THEN <<WASMType_F32>> ELSE <<>>

\* the last n entries of a stack, and the stack without them
Top(st, n) == SubSeq(st, Len(st) - n + 1, Len(st))
Drop(st, n) == SubSeq(st, 1, Len(st) - n)

\* the operand stack's types after one instruction, Invalid on a mismatch
TypeStep(ins, st, args, gl) ==
    LET Binary(t) == IF Len(st) >= 2 /\ Top(st, 2) = <<t, t>>
                     THEN Append(Drop(st, 2), t) ELSE Invalid
    IN IF ins.op = WasmOp_I32_CONST THEN Append(st, WASMType_I32)
       ELSE IF ins.op = WasmOp_I64_CONST THEN Append(st, WASMType_I64)
       ELSE IF ins.op = WasmOp_F32_CONST THEN Append(st, WASMType_F32)
       ELSE IF ins.op = WasmOp_F64_CONST THEN Append(st, WASMType_F64)
       ELSE IF ins.op = WasmOp_LOCAL_GET
         THEN IF ins.arg < Len(args) THEN Append(st, args[ins.arg + 1]) ELSE Invalid
       ELSE IF ins.op = WasmOp_GLOBAL_GET
         THEN IF ins.arg < Len(gl) THEN Append(st, gl[ins.arg + 1]) ELSE Invalid
       ELSE IF ins.op = WasmOp_GLOBAL_SET
         THEN IF ins.arg < Len(gl) /\ Len(st) >= 1 /\ st[Len(st)] = gl[ins.arg + 1]
              THEN Drop(st, 1) ELSE Invalid
       ELSE IF ins.op \in {WasmOp_I32_ADD, WasmOp_I32_MUL} THEN Binary(WASMType_I32)
       ELSE IF ins.op \in {WasmOp_F32_ADD, WasmOp_F32_MUL} THEN Binary(WASMType_F32)
       ELSE IF ins.op = WasmOp_CALL
         THEN IF /\ ins.arg \in {WASMLumixAPI_SET_YAW, WASMLumixAPI_SET_PROPERTY_FLOAT,
                                  WASMLumixAPI_GET_PROPERTY_FLOAT}
                 /\ Len(st) >= Len(ImportArgs(ins.arg))
                 /\ Top(st, Len(ImportArgs(ins.arg))) = ImportArgs(ins.arg)
              THEN Drop(st, Len(ImportArgs(ins.arg))) \o ImportResult(ins.arg)
              ELSE Invalid
       ELSE Invalid

RECURSIVE TypeFrom(_, _, _, _, _)
TypeFrom(code, k, st, args, gl) ==
    IF st = Invalid \/ k > Len(code) THEN st
    ELSE TypeFrom(code, k + 1, TypeStep(code[k], st, args, gl), args, gl)

\* a function body: the count of locals, instructions that type-check from
\* an empty stack to an empty stack, and END as the last byte
WellTyped(code, args, gl) ==
    /\ Len(code) >= 2
    /\ code[1].op = NumLocals
    /\ code[Len(code)].op = WasmOp_END
    /\ TypeFrom(SubSeq(code, 2, Len(code) - 1), 1, <<>>, args, gl) = <<>>

\* the operand stack and the globals after one instruction of a well-typed
\* body; host is what getPropertyFloat returns
ExecStep(ins, m, args, host) ==
    LET st == m.stack
        a == st[Len(st) - 1]
        b == st[Len(st)]
        Result(v) == [m EXCEPT !.stack = Append(Drop(st, 2), v)]
    IN IF ins.op \in {WasmOp_I32_CONST, WasmOp_I64_CONST, WasmOp_F32_CONST,
                      WasmOp_F64_CONST}
         THEN [m EXCEPT !.stack = Append(st, ins.arg)]
       ELSE IF ins.op = WasmOp_LOCAL_GET
         THEN [m EXCEPT !.stack = Append(st, args[ins.arg + 1])]
       ELSE IF ins.op = WasmOp_GLOBAL_GET
         THEN [m EXCEPT !.stack = Append(st, m.globals[ins.arg + 1])]
       ELSE IF ins.op = WasmOp_GLOBAL_SET
         THEN [stack |-> Drop(st, 1), globals |-> [m.globals EXCEPT ![ins.arg + 1] = b]]
       ELSE IF ins.op = WasmOp_I32_ADD THEN Result(U32Add(a, b))
       ELSE IF ins.op = WasmOp_I32_MUL THEN Result(U32Mul(a, b))
       ELSE IF ins.op = WasmOp_F32_ADD THEN Result(F32Add(a, b))
       ELSE IF ins.op = WasmOp_F32_MUL THEN Result(F32Mul(a, b))
       ELSE \* WasmOp_CALL
            [m EXCEPT !.stack = Drop(st, Len(ImportArgs(ins.arg)))
                        \o (IF ImportResult(ins.arg) = <<>> THEN <<>> ELSE <<host>>)]

RECURSIVE ExecFrom(_, _, _, _, _)
ExecFrom(code, k, m, args, host) ==
    IF k > Len(code) THEN m
    ELSE ExecFrom(code, k + 1, ExecStep(code[k], m, args, host), args, host)

\* the globals after a call of a well-typed function body
Execute(code, globals, args, host) ==
    ExecFrom(SubSeq(code, 2, Len(code) - 1), 1, [stack |-> <<>>, globals |-> globals],
             args, host).globals

(***************************************************************************)
(* SpecScript: a script graph is open in the editor; links and variables   *)
(* are deleted and literals edited, the graph is compiled, and the runtime *)
(* calls the exports of the module.                                        *)
(***************************************************************************)
RECURSIVE addNodes(_, _, _)
\* addNode for the nodes ns[k..], on a graph under construction
addNodes(c, ns, k) ==
    IF k > Len(ns) THEN c
    ELSE addNodes(addNode(c.nodes, c.counter, ns[k]), ns, k + 1)

\* a link from output pin op of node a to input pin inp of node b
Link(a, op, b, inp) == [from |-> OutputPinId(a, op), to |-> InputPinId(b, inp)]

\* the graph of a new editor session with nodes ns (ids 1, 2, ..), the links
\* ls and the variable table vs
MakeGraph(ns, ls, vs) ==
    LET c == addNodes([nodes |-> <<>>, counter |-> 0], ns, 1)
    IN [nodes |-> c.nodes, links |-> ls, variables |-> vs, counter |-> c.counter]

F32Three == F32Encode(FALSE, 3)
Const(v) == [NewNode(Type_CONST) EXCEPT !.m_value = v]
SetVariable(var) == [NewNode(Type_SET_VARIABLE) EXCEPT !.m_var = var]
GetVariable(var) == [NewNode(Type_GET_VARIABLE) EXCEPT !.m_var = var]
Var(name, type) == [name |-> name, type |-> type]

\* start -> SetVariable(x, op(first, Const(b)))
ArithmeticScript(op, first, b, vt) ==
    MakeGraph(<<NewNode(Type_START), SetVariable(0), NewNode(op), first, Const(b)>>,
              <<Link(1, 0, 2, 0), Link(3, 0, 2, 1), Link(4, 0, 3, 0), Link(5, 0, 3, 1)>>,
              <<Var(1, vt)>>)

\* start -> If(Const(c)) with SetVariable(x, Const(1)) on the true output
\* and SetVariable(x, Const(0)) on the false output
BranchScript(c) ==
    MakeGraph(<<NewNode(Type_START), NewNode(Type_IF), Const(c),
                SetVariable(0), Const(F32One), SetVariable(0), Const(0)>>,
              <<Link(1, 0, 2, 0), Link(3, 0, 2, 1), Link(2, 0, 4, 0), Link(2, 1, 6, 0),
                Link(5, 0, 4, 1), Link(7, 0, 6, 1)>>,
              <<Var(1, ValueType_FLOAT)>>)

\* start -> Sequence with SetVariable(x, Const(v)) on output 0 and
\* SetVariable(y, Const(v)) on output 1
SequenceScript(v) ==
    MakeGraph(<<NewNode(Type_START), NewNode(Type_SEQUENCE), SetVariable(0),
                SetVariable(1), Const(v)>>,
              <<Link(1, 0, 2, 0), Link(2, 0, 3, 0), Link(2, 1, 4, 0), Link(5, 0, 3, 1),
                Link(5, 0, 4, 1)>>,
              <<Var(1, ValueType_FLOAT), Var(2, ValueType_FLOAT)>>)

\* every entry point, Start twice: the first four run SetVariable(x, ..),
\* the second Start node runs SetVariable(y, ..)
EntryScript(v) ==
    MakeGraph(<<NewNode(Type_UPDATE), NewNode(Type_MOUSE_MOVE), NewNode(Type_KEY_INPUT),
                NewNode(Type_START), NewNode(Type_START), SetVariable(0),
                SetVariable(1), Const(v)>>,
              <<Link(1, 0, 6, 0), Link(2, 0, 6, 0), Link(3, 0, 6, 0), Link(4, 0, 6, 0),
                Link(5, 0, 7, 0), Link(8, 0, 6, 1), Link(8, 0, 7, 1)>>,
              <<Var(1, ValueType_FLOAT), Var(2, ValueType_FLOAT)>>)

\* start -> SetYaw(Self, GetProperty(Self))
\*       -> SetProperty(Self, Mul(GetProperty(Self), GetProperty(Self)))
EntityScript ==
    MakeGraph(<<NewNode(Type_START), NewNode(Type_SET_YAW), NewNode(Type_SET_PROPERTY),
                NewNode(Type_SELF), NewNode(Type_GET_PROPERTY), NewNode(Type_MUL)>>,
              <<Link(1, 0, 2, 0), Link(4, 0, 2, 1), Link(5, 0, 2, 2), Link(4, 0, 5, 0),
                Link(2, 0, 3, 0), Link(4, 0, 3, 1), Link(6, 0, 3, 2), Link(5, 0, 6, 0),
                Link(5, 0, 6, 1)>>,
              <<>>)

Scripts ==
    {ArithmeticScript(op, first, b, vt) :
        op \in {Type_ADD, Type_MUL}, first \in {Const(F32Two), GetVariable(0)},
        b \in {F32Three}, vt \in {ValueType_U32, ValueType_FLOAT}}
    \cup {BranchScript(c) : c \in {0, F32One}}
    \cup {SequenceScript(F32Two), EntryScript(F32Two), EntityScript}

InitScript ==
    /\ \E g \in Scripts :
            /\ m_nodes = g.nodes /\ m_links = g.links /\ m_variables = g.variables
            /\ node_counter_ = g.counter
    /\ blob = <<>>
    /\ compiled = NoGraph
    /\ m_path = NoPath
    /\ generated = NoCode
    /\ NotCompiled
    /\ SceneIdle
    /\ KvmIdle

\* what the host passes to an export and what getPropertyFloat returns
CallArgs(name) ==
    IF name = "update" THEN <<F32One>>
    ELSE IF name = "onMouseMove" THEN <<F32One, F32Two>>
    ELSE IF name = "onKeyEvent" THEN <<1>>
    ELSE <<>>

SelfEntity == 7

\* the globals of a fresh instance: the initialisers of the global section,
\* then m3_SetGlobal of "self"
InitialGlobals == [k \in 1..Len(wasm.globals) |-> IF k = 1 THEN SelfEntity ELSE 0]

\* the runtime looks the export up and calls it; a body that does not
\* validate is refused
CallExport(e, host) ==
    /\ wasm.written
    /\ e \in 1..Len(wasm.exports)
    /\ run.calls < MaxCalls
    /\ LET x == wasm.exports[e]
           gl == IF run.status = "none" THEN InitialGlobals ELSE run.globals
       IN run' = IF WellTyped(x.code, x.args, wasm.globals)
                 THEN [status |-> "returned", func |-> x.name, calls |-> run.calls + 1,
                       globals |-> Execute(x.code, gl, CallArgs(x.name), host)]
                 ELSE [status |-> "refused", func |-> x.name, calls |-> run.calls + 1,
                       globals |-> gl]
    /\ UNCHANGED <<graphVars, generated, wasm, resource, kvmVars, sceneVars>>

NextScript ==
    \/ NotCompiled /\ \E i \in 1..Len(m_links) : RemoveLink(i)
    \/ NotCompiled /\ \E i \in 1..Len(m_variables) : DeleteVariable(i)
    \/ NotCompiled /\ \E i \in 1..Len(m_nodes), v \in {0, F32One} : EditConst(i, v)
    \/ wasm = NoModule /\ \E oob \in StaleTypes : GraphGenerate(oob)
    \/ \E e \in 1..Len(wasm.exports), host \in HostWords : CallExport(e, host)

SpecScript == InitScript /\ [][NextScript]_vars

\* the operator instruction of an Add, Mul or compare node in its
\* floating-point and in its integer variant; the comparisons are the
\* backend's f32 (0x5B..0x60) and i32 (0x46..0x4F) comparison instructions
FloatOperators(type) ==
    IF type = Type_ADD THEN {WasmOp_F32_ADD}
    ELSE IF type = Type_MUL THEN {WasmOp_F32_MUL}
    ELSE 91..96

IntOperators(type) ==
    IF type = Type_ADD THEN {WasmOp_I32_ADD}
    ELSE IF type = Type_MUL THEN {WasmOp_I32_MUL}
    ELSE 70..79

BinaryKinds == {Type_ADD, Type_MUL, Type_EQ, Type_NEQ, Type_LT, Type_GT, Type_LTE,
                Type_GTE}

\* generate of node i, a binary node with both operands connected, ends
\* with the operator variant that the type of its first operand selects
DispatchesOnType(g, i, oob, code) ==
    LET n == g.nodes[i]
        t == getOutputType(g, getInputNode(g, n, 0).node, {}, oob)
    IN /\ code # <<>>
       /\ t = ValueType_FLOAT => code[Len(code)].op \in FloatOperators(n.type)
       /\ t \in {ValueType_U32, ValueType_I32, ValueType_ENTITY}
            => code[Len(code)].op \in IntOperators(n.type)

BothOperandsConnected(g, i) ==
    /\ g.nodes[i].type \in BinaryKinds
    /\ getInputNode(g, g.nodes[i], 0).node # 0
    /\ getInputNode(g, g.nodes[i], 1).node # 0

\* C11: an Add, Mul or compare node with both operands connected emits the
\* floating-point variant of its operator when its first operand reports
\* FLOAT, and the integer variant when it reports U32, I32 or ENTITY.
C11_TypeDirectedDispatch ==
    [][\A i \in 1..Len(m_nodes), idx \in OutputIdxs, oob \in StaleTypes :
            /\ GenerateNode(i, idx, oob)
            /\ BothOperandsConnected(CurGraph, i)
            /\ ~generated'.diverges
            => DispatchesOnType(CurGraph, i, oob, generated'.code)]_vars

\* the types of the nodes of a graph, in list order
NodeKinds(g) == [i \in 1..Len(g.nodes) |-> g.nodes[i].type]

\* the export of the module with this name, 0 if there is none
ExportNamed(name) ==
    LET es == {e \in 1..Len(wasm.exports) : wasm.exports[e].name = name}
    IN IF es = {} THEN 0 ELSE MinOf(es)

\* the graph is start -> SetVariable(x, Add(Const(a), Const(b))), fully wired
IsStartSetVariableAdd(g) ==
    /\ NodeKinds(g) = <<Type_START, Type_SET_VARIABLE, Type_ADD, Type_CONST, Type_CONST>>
    /\ g.links = ArithmeticScript(Type_ADD, Const(0), 0, ValueType_FLOAT).links
    /\ Len(g.variables) = 1

\* a + b as a value of variable type vt
SumAs(vt, a, b) ==
    IF vt = ValueType_FLOAT THEN F32Add(a, b) ELSE F32Signed(a) + F32Signed(b)

\* C12: for start -> SetVariable(x, Add(Const(a), Const(b))) the code of the
\* start export is well-typed, and a call of start leaves x equal to a + b.
C12_StartSetVariable ==
    (IsStartSetVariableAdd(CurGraph) /\ wasm.written)
    => /\ ExportNamed("start") # 0
       /\ WellTyped(wasm.exports[ExportNamed("start")].code, <<>>, wasm.globals)
       /\ run.func = "start"
            => /\ run.status = "returned"
               /\ run.globals[1 + WASMGlobals_USER]
                    = SumAs(m_variables[1].type, m_nodes[4].m_value, m_nodes[5].m_value)

\* the data inputs a node cannot generate without
RequiredInputs(n) ==
    IF n.type \in {Type_ADD, Type_MUL} THEN {0, 1}
    ELSE IF n.type = Type_SET_YAW THEN {1, 2}
    ELSE IF n.type \in {Type_SET_VARIABLE, Type_SET_PROPERTY, Type_IF} THEN {1}
    ELSE IF n.type = Type_GET_PROPERTY THEN {0}
    ELSE {}

MissingInput(g, i) ==
    \E pin \in RequiredInputs(g.nodes[i]) : getInputNode(g, g.nodes[i], pin).node = 0

\* C13: a node with a required data input unconnected appends no bytes when
\* generate is invoked on it, its diagnostic is set by a compile that
\* invokes it, and that compile still returns a non-empty buffer.
C13_MissingInputSoftError ==
    wasm # NoModule
    => \A i \in 1..Len(m_nodes) :
          MissingInput(CurGraph, i)
          => /\ \A idx \in OutputIdxs, oob \in StaleTypes :
                    generate(CurGraph, i, idx, {}, oob).code = <<>>
             /\ i \in wasm.invoked
                  => /\ m_nodes[i].m_id \in wasm.errors
                     /\ wasm.written /\ wasm.head # <<>>

\* an Add node with only its second input connected was compiled
C13_Witness ==
    /\ wasm.written
    /\ NodeKinds(CurGraph) = <<Type_START, Type_SET_VARIABLE, Type_ADD, Type_CONST,
                               Type_CONST>>
    /\ m_links = <<Link(1, 0, 2, 0), Link(3, 0, 2, 1), Link(5, 0, 3, 1)>>
    /\ 3 \in wasm.invoked /\ wasm.errors = {3}
    /\ wasm.exports[ExportNamed("start")].code
            = <<Op(NumLocals, 0), Op(WasmOp_GLOBAL_SET, WASMGlobals_USER),
                Op(WasmOp_END, 0)>>

\* the graph is start -> If(Const(c)), SetVariable(x, Const(t)) on the true
\* output and SetVariable(x, Const(f)) on the false output, fully wired
IsBranchScript(g) ==
    /\ NodeKinds(g) = NodeKinds(BranchScript(0))
    /\ g.links = BranchScript(0).links
    /\ Len(g.variables) = 1

\* C14: with condition, true successor and false successor connected, a run
\* of the compiled entry point executes the side effects of exactly one
\* chain: x holds the true chain's value when the condition holds (is not
\* zero) and the false chain's value otherwise.
C14_IfBranching ==
    (IsBranchScript(CurGraph) /\ run.func = "start")
    => /\ run.status = "returned"
       /\ run.globals[1 + WASMGlobals_USER]
            = IF m_nodes[3].m_value # 0 THEN m_nodes[5].m_value ELSE m_nodes[7].m_value

\* C15: Graph::generate terminates on every graph, cycles of links
\* included, without aborting, and produces a non-empty buffer.
C15_CompileAlwaysReturns ==
    wasm # NoModule => wasm.written /\ wasm.head # <<>> /\ ~wasm.asserted

\* node i is a variable node whose index is past the variable table
StaleVariable(g, i) ==
    /\ g.nodes[i].type \in {Type_GET_VARIABLE, Type_SET_VARIABLE}
    /\ g.nodes[i].m_var >= Len(g.variables)

\* C16: a compile that generates a GetVariable or SetVariable node whose
\* index is not less than the length of the variable table records a
\* diagnostic on the node, and nothing it writes depends on a read past the
\* end of the table.
C16_StaleVariableSoftError ==
    wasm # NoModule
    => /\ \A i \in wasm.invoked :
              StaleVariable(CurGraph, i) => m_nodes[i].m_id \in wasm.errors
       /\ \A o1 \in StaleTypes, o2 \in StaleTypes :
              Graph_generate(CurGraph, o1) = Graph_generate(CurGraph, o2)

\* the instructions of the successor chain of entry node i
SuccessorChain(g, i, oob) ==
    LET o == getOutputNode(g, g.nodes[i], 0)
    IN IF o.node = 0 THEN <<>>
       ELSE generate(g, o.node, o.input_idx, {<<i, 0>>}, oob).code

\* a function body that is the count of locals, the chain and END
EndsWithEnd(g, x) ==
    \E oob \in StaleTypes :
        x.code = <<Op(NumLocals, 0)>> \o SuccessorChain(g, x.node, oob)
                    \o <<Op(WasmOp_END, 0)>>

\* C17: the body of every exported entry point (Start, Update, MouseMove,
\* KeyInput) is the count of locals, the node's successor chain and END as
\* its last instruction.
C17_BodyEndsWithEnd ==
    wasm.written
    => \A e \in 1..Len(wasm.exports) : EndsWithEnd(CurGraph, wasm.exports[e])

EntryKinds == {Type_START, Type_UPDATE, Type_MOUSE_MOVE, Type_KEY_INPUT}

\* C18: the module has one exported function for every entry-point node of
\* the graph, also for two nodes of the same entry-point type, and its body
\* is the code generated for that node.
C18_EveryEntryCompiled ==
    wasm.written
    => \A i \in 1..Len(m_nodes) :
          m_nodes[i].type \in EntryKinds
          => \E e \in 1..Len(wasm.exports) : wasm.exports[e].node = i

RECURSIVE ChainsInPinOrder(_, _, _, _)
\* the chains of the successors connected to the flow outputs k, k + 1, ..
\* of Sequence node i, one after the other
ChainsInPinOrder(g, i, k, oob) ==
    IF k \notin PinRange THEN <<>>
    ELSE LET o == getOutputNode(g, g.nodes[i], k)
         IN (IF o.node = 0 THEN <<>>
             ELSE generate(g, o.node, 0, {<<i, 0>>}, oob).code)
            \o ChainsInPinOrder(g, i, k + 1, oob)

\* C19: a compiled Sequence node generates the chain of every successor
\* connected to one of its flow outputs, in increasing pin order, also
\* behind an unconnected lower pin.
C19_SequenceOrdering ==
    wasm.written
    => \A i \in wasm.invoked, oob \in StaleTypes :
          m_nodes[i].type = Type_SEQUENCE
          => generate(CurGraph, i, 0, {}, oob).code = ChainsInPinOrder(CurGraph, i, 0, oob)

MaxOf(S) == CHOOSE m \in S : \A x \in S : m >= x

\* the links into input pin idx of node n, by their place in the link list
LinksInto(g, n, idx) == {k \in 1..Len(g.links) : g.links[k].to = InputPinId(n.m_id, idx)}

\* C20: getInputNode returns the producing node and output pin of the last
\* link of the link list into the input pin, and unconnected when there is
\* no such link.
C20_LastLinkWins ==
    \A i \in 1..Len(m_nodes), idx \in PinRange :
        LET ks == LinksInto(CurGraph, m_nodes[i], idx)
            r == getInputNode(CurGraph, m_nodes[i], idx)
        IN IF ks = {} THEN r.node = 0
           ELSE /\ r.node = getNode(CurGraph, NodeOfPin(m_links[MaxOf(ks)].from))
                /\ r.output_idx = Shr16(m_links[MaxOf(ks)].from)

(***************************************************************************)
(* Further claims about the bytecode writer, under SpecKvm.                *)
(***************************************************************************)
\* C21: once kvm_bc_start_write was called the write cursor never exceeds
\* the capacity, and a call of an emitter moves the cursor only when the
\* instruction fits in the space that remains.
C21_CursorWithinCapacity ==
    /\ [](pc # "idle" => Cursor <= capacity)
    /\ [][pc = "write" /\ bytecode' # bytecode /\ pc' = "write"
          => WordBytes * Len(bytecode') <= capacity]_vars

\* the words an accessor is documented to return: environment slots idx,
\* idx + 1, ... for idx >= 0, stack slots sp + idx, ... for idx < 0
DocumentedRead(fn, idx) ==
    [k \in 1..ResultWords(fn) |->
        IF idx >= 0 THEN env[idx + k - 1] ELSE stack[vm_sp + idx + k - 1]]

\* C22: each of kvm_get, kvm_get64, kvm_get_ptr and kvm_get_float returns
\* the contents of environment slot idx when idx >= 0 and of the stack slot
\* at sp + idx when idx < 0.
C22_AccessorIndexConvention ==
    got # NoRead => got.value = DocumentedRead(got.fn, got.idx)

(***************************************************************************)
(* Claims about the interpreter, under SpecKvm.                            *)
(***************************************************************************)
\* byte k (0 the lowest) of a 32-bit word
ByteOf(w, k) == (w \div (256 ^ k)) % 256

\* r is (a + b) mod 2^32: the byte-wise sum with carries
AddsTo(a, b, r) ==
    LET s0 == ByteOf(a, 0) + ByteOf(b, 0)
        s1 == ByteOf(a, 1) + ByteOf(b, 1) + (s0 \div 256)
        s2 == ByteOf(a, 2) + ByteOf(b, 2) + (s1 \div 256)
        s3 == ByteOf(a, 3) + ByteOf(b, 3) + (s2 \div 256)
    IN /\ ByteOf(r, 0) = s0 % 256 /\ ByteOf(r, 1) = s1 % 256
       /\ ByteOf(r, 2) = s2 % 256 /\ ByteOf(r, 3) = s3 % 256

\* r is (a * b) mod 2^32: the columns of the byte-wise product with carries
MultipliesTo(a, b, r) ==
    LET A(k) == ByteOf(a, k)
        B(k) == ByteOf(b, k)
        c0 == A(0) * B(0)
        c1 == A(0) * B(1) + A(1) * B(0) + (c0 \div 256)
        c2 == A(0) * B(2) + A(1) * B(1) + A(2) * B(0) + (c1 \div 256)
        c3 == A(0) * B(3) + A(1) * B(2) + A(2) * B(1) + A(3) * B(0) + (c2 \div 256)
    IN /\ ByteOf(r, 0) = c0 % 256 /\ ByteOf(r, 1) = c1 % 256
       /\ ByteOf(r, 2) = c2 % 256 /\ ByteOf(r, 3) = c3 % 256

ArithmeticOps == {KVM_OP_ADD, KVM_OP_MUL, KVM_OP_ADDF, KVM_OP_MULF}

\* C23: ADD, MUL, ADDF and MULF executed on two values a (pushed first) and
\* b lower the stack pointer by one, leave the slots below the operands
\* unchanged and put the result in the slot of a; the result of ADD is
\* (a + b) mod 2^32 and the result of MUL is (a * b) mod 2^32.
C23_BinaryArithmetic ==
    [][/\ pc = "run" /\ pc' = "run"
       /\ CurOp \in ArithmeticOps
       /\ {sp - 2, sp - 1} \subseteq determined
       => /\ sp' = sp - 1
          /\ \A s \in StackSlots : s < sp - 2 => stack'[s] = stack[s]
          /\ CurOp = KVM_OP_ADD => AddsTo(stack[sp - 2], stack[sp - 1], stack'[sp - 2])
          /\ CurOp = KVM_OP_MUL => MultipliesTo(stack[sp - 2], stack[sp - 1], stack'[sp - 2])]_vars

\* The host pushed -1.0f twice (the words 0xBF800000) and ADD ran: the sum
\* 0x17F000000 wrapped to 0x7F000000 in the slot of the first operand, and
\* one value is left.
C23_Witness ==
    /\ pc = "run" /\ steps = 1 /\ ip = WordBytes
    /\ bytecode[1] = KVM_OP_ADD
    /\ vm_sp = 2 /\ sp = 1
    /\ stack[0] = 2130706432 /\ stack[1] = F32MinusOne

(***************************************************************************)
(* SpecVm: programs written through the kvm_bc_* API and finalised by      *)
(* kvm_bc_end_write, executed by two KVM instances whose instruction steps *)
(* interleave. The instance that runs is held in the variables of the      *)
(* interpreter, the instance that waits in `other`.                        *)
(***************************************************************************)
Call(fn, op, arg) == [fn |-> fn, op |-> op, arg |-> arg]
NoWriter == [bytecode |-> <<>>, labels |-> <<>>, emitted |-> <<>>, placed |-> <<>>]

\* the writer w after the words ws of one instruction were appended
bc_write(w, op, arg, ws) ==
    [w EXCEPT !.bytecode = @ \o ws,
              !.emitted = Append(@, [op |-> op, at |-> WordBytes * Len(w.bytecode),
                                     arg |-> arg])]

\* one call of the kvm_bc_* API on the writer w of capacity cap
bc_call(w, c, cap) ==
    IF c.fn = "simple"
      THEN IF cap < WordBytes THEN w ELSE bc_write(w, c.op, 0, <<c.op>>)
    ELSE IF c.fn = "u32"
      THEN IF cap < WordBytes + WordBytes THEN w
           ELSE bc_write(w, c.op, c.arg, <<c.op, c.arg>>)
    ELSE IF c.fn = "create_label"
      THEN [w EXCEPT !.labels = Append(@, KVM_INVALID_LABEL),
                     !.placed = Append(@, Unplaced)]
    ELSE [w EXCEPT !.labels[c.arg + 1] = WordBytes * Len(w.bytecode),
                   !.placed[c.arg + 1] = [off |-> WordBytes * Len(w.bytecode),
                                          after |-> Len(w.emitted)]]

RECURSIVE bc_calls(_, _, _, _)
bc_calls(w, calls, k, cap) ==
    IF k > Len(calls) THEN w ELSE bc_calls(bc_call(w, calls[k], cap), calls, k + 1, cap)

\* kvm_bc_start_write, the calls, kvm_bc_end_write
Assembled(calls, cap) ==
    LET w == bc_calls(NoWriter, calls, 1, cap)
    IN [w EXCEPT !.bytecode = end_write_from(w.bytecode, w.labels, 1)]

\* CALL f; END; f: CONST32 1; POP; RET
CallReturn ==
    <<Call("create_label", 0, 0), Call("u32", KVM_OP_CALL, 0), Call("simple", KVM_OP_END, 0),
      Call("place_label", 0, 0), Call("u32", KVM_OP_CONST32, 1), Call("simple", KVM_OP_POP, 0),
      Call("simple", KVM_OP_RET, 0)>>

\* env[0] = env[0] + 1
Increment ==
    <<Call("u32", KVM_OP_GET, 0), Call("u32", KVM_OP_CONST32, 1), Call("simple", KVM_OP_ADD, 0),
      Call("u32", KVM_OP_SET, 0), Call("simple", KVM_OP_END, 0)>>

\* env[0] = the argument of the caller (stack slot 0) times env[0]
Scale ==
    <<Call("u32", KVM_OP_GET_LOCAL, 0), Call("u32", KVM_OP_GET, 0), Call("simple", KVM_OP_MUL, 0),
      Call("u32", KVM_OP_SET, 0), Call("simple", KVM_OP_END, 0)>>

\* one argument is pushed and the host is called with it
Notify ==
    <<Call("u32", KVM_OP_CONST32, 7), Call("u32", KVM_OP_SYSCALL, 1), Call("simple", KVM_OP_END, 0)>>

Programs == {CallReturn, Increment, Scale, Notify}
ProgramCapacity == 64
Pushes == {<<>>, <<3>>}                 \* what the host pushes before kvm_call
EnvWords == {0, 5}                      \* slot 0 of an environment block
VmInputs == [pushes : Pushes, env0 : EnvWords]

\* the instance after kvm_init, the kvm_push calls and the entry of
\* kvm_call(vm, bytecode, syscall, 0)
Enter(input) ==
    [pc |-> "run",
     stack |-> [s \in StackSlots |->
                  IF s < Len(input.pushes) THEN input.pushes[s + 1] ELSE 0],
     determined |-> 0 .. (Len(input.pushes) - 1),
     sp |-> Len(input.pushes),
     vm_sp |-> Len(input.pushes),
     ip |-> 0,
     env |-> [e \in EnvIdx |-> IF e = 0 THEN input.env0 ELSE 0],
     steps |-> 0]

\* Same shape as Running; the stack pointer of kvm_call is one variable for
\* all instances (a static), not a local of each call.
Running_staticSp ==
    [pc |-> pc, stack |-> stack, determined |-> determined, sp |-> other.vm.sp,
     vm_sp |-> vm_sp, ip |-> ip, env |-> env, steps |-> steps]

\* What belongs to the instance that runs: its KVM (stack, sp), its
\* environment block and the locals ip and sp of its kvm_call.
Running ==
    [pc |-> pc, stack |-> stack, determined |-> determined, sp |-> sp,
     vm_sp |-> vm_sp, ip |-> ip, env |-> env, steps |-> steps]

InitVm ==
    /\ m_nodes = <<>> /\ m_links = <<>> /\ m_variables = <<>>
    /\ node_counter_ = 0 /\ blob = <<>> /\ compiled = NoGraph /\ m_path = NoPath
    /\ generated = NoCode
    /\ NotCompiled
    /\ SceneIdle
    /\ capacity = ProgramCapacity
    /\ \E calls \in Programs :
        LET w == Assembled(calls, ProgramCapacity)
        IN /\ bytecode = w.bytecode
           /\ labels = w.labels
           /\ emitted = w.emitted
           /\ placed = w.placed
    /\ got = NoRead
    /\ \E a \in VmInputs, b \in VmInputs :
        /\ pc = Enter(a).pc
        /\ stack = Enter(a).stack
        /\ determined = Enter(a).determined
        /\ sp = Enter(a).sp
        /\ vm_sp = Enter(a).vm_sp
        /\ ip = Enter(a).ip
        /\ env = Enter(a).env
        /\ steps = Enter(a).steps
        /\ other = [id |-> 2, vm |-> Enter(b), input |-> <<a, b>>]

\* the scheduler lets the other instance execute its next instruction
SwitchInstance ==
    /\ other.id # 0
    /\ other.vm.pc = "run"
    /\ other' = [other EXCEPT !.id = 3 - @, !.vm = Running]
    /\ pc' = other.vm.pc
    /\ stack' = other.vm.stack
    /\ determined' = other.vm.determined
    /\ sp' = other.vm.sp
    /\ vm_sp' = other.vm.vm_sp
    /\ ip' = other.vm.ip
    /\ env' = other.vm.env
    /\ steps' = other.vm.steps
    /\ UNCHANGED <<sceneVars, graphVars, genVars, bytecode, capacity, labels, emitted, placed, got>>

NextVm ==
    \/ kvm_call_step
    \/ SwitchInstance

SpecVm == InitVm /\ [][NextVm]_vars

(***************************************************************************)
(* Claims under SpecVm.                                                    *)
(***************************************************************************)
\* the input of the instance that runs
RunningInput == other.input[3 - other.id]

\* C24: CALL f pushes the byte offset of the instruction after the CALL and
\* continues at offset f; RET pops one value and continues at that offset;
\* so when the callee CONST32 1; POP; RET of the program CALL f; END; f: ...
\* has returned, execution is at the END after the CALL and the stack
\* pointer is what it was before the CALL.
C24_CallReturnPairing ==
    /\ [][/\ pc = "run" /\ pc' = "run" /\ other' = other
          /\ CurOp = KVM_OP_CALL
          => /\ stack'[sp] = ip + WordBytes + WordBytes
             /\ sp' = sp + 1
             /\ ip' = WordAt(ip + WordBytes)]_vars
    /\ [][/\ pc = "run" /\ pc' = "run" /\ other' = other
          /\ CurOp = KVM_OP_RET
          /\ sp - 1 \in determined
          => /\ ip' = stack[sp - 1]
             /\ sp' = sp - 1]_vars
    /\ [](/\ pc = "run" /\ steps = 4
          /\ emitted[1].op = KVM_OP_CALL
          => /\ ip = emitted[2].at
             /\ sp = Len(RunningInput.pushes))

\* The callee of CallReturn returned in an instance that was entered with
\* one pushed value: the return address 8 was pushed above it and popped.
C24_Witness ==
    /\ pc = "run" /\ steps = 4
    /\ emitted[1].op = KVM_OP_CALL /\ emitted[2].op = KVM_OP_END
    /\ bytecode[2] = 12
    /\ ip = 8 /\ sp = 1
    /\ stack[0] = 3 /\ stack[1] = 8 /\ stack[2] = 1

(***************************************************************************)
(* SpecLoad: graphs are built and saved, files whose header another        *)
(* version of the format wrote are on disk, and the editor loads them.     *)
(***************************************************************************)
Magics == {MAGIC, MAGIC + 1}            \* the first word of a file
Versions == {0, 1}                      \* the second word of a file

\* a graph file with the header <<magic, version>> replaces the file
ForeignFile(magic, version) ==
    /\ blob # <<>>
    /\ blob' = [blob EXCEPT ![1] = magic, ![2] = version]
    /\ blob' # blob
    /\ compiled' = NoGraph
    /\ UNCHANGED <<m_nodes, m_links, m_variables, node_counter_, m_path, genVars, kvmVars, sceneVars>>

NextLoad ==
    \/ Growing /\ \E t \in LinkedTypes, p \in Positions : AddNode(t, p)
    \/ Growing /\ \E a \in 1..Len(m_nodes), b \in 1..Len(m_nodes),
                     op \in PinRange, inp \in PinRange : CreateLink(a, op, b, inp)
    \/ Growing /\ \E t \in VarTypes : AddVariable(t)
    \/ Save
    \/ \E magic \in Magics, version \in Versions : ForeignFile(magic, version)
    \/ \E path \in Paths : Load(path)

SpecLoad == InitGraph /\ [][NextLoad]_vars

\* the file has the magic and the version Graph::deserialize accepts
GoodHeader(b) == Read(b, 1) = MAGIC /\ Read(b, 2) = 0

\* C25: Graph::deserialize returns false exactly when the magic differs
\* from MAGIC or the version is not 0, and then it has added no node, link
\* or variable and not changed the node-id counter; load of such a file
\* ends with a graph without nodes, links and variables and leaves the
\* current path as it was.
C25_FailedLoadLeavesEmptyGraph ==
    /\ [](blob # <<>> =>
            \A g \in {EmptyGraph, CurGraph} :
                /\ deserialize(g, blob).ok <=> GoodHeader(blob)
                /\ ~deserialize(g, blob).ok => deserialize(g, blob).graph = g)
    /\ [][(\E path \in Paths : Load(path)) /\ ~GoodHeader(blob)
          => /\ m_nodes' = <<>> /\ m_links' = <<>> /\ m_variables' = <<>>
             /\ m_path' = m_path]_vars

\* A graph whose counter had reached 32767 was saved under path 1, a file
\* with another header took its place, and load left a new, empty graph
\* and the path.
C25_Witness ==
    /\ ~GoodHeader(blob) /\ Len(blob) > 6 /\ blob[3] = 32767
    /\ m_nodes = <<>> /\ m_links = <<>> /\ m_variables = <<>>
    /\ node_counter_ = 0
    /\ m_path = 1

\* ---------------------------------------------------------------------------
\* The names a compiled module shares with the runtime.

\* Graph::generate: the addFunctionImport calls on module "LumixAPI", in their
\* order; WASMWriter::write numbers the imports from 0 and the exports after
\* them
Imports == <<"setYaw", "setPropertyFloat", "getPropertyFloat">>

ImportIndex(name) == (CHOOSE k \in 1..Len(Imports) : Imports[k] = name) - 1

\* ScriptSceneImpl::update: the functions it links into module "LumixAPI"
\* and the exports it looks up with m3_FindFunction
RuntimeLinks == {"setYaw", "setPropertyFloat", "getPropertyFloat"}
RuntimeLookups == {"onMouseMove", "onKeyEvent", "update"}

ExportedNames == {wasm.exports[k].name : k \in 1..Len(wasm.exports)}

\* the export names of the entry-point types that have a node in the graph
EntryPointNames ==
    {ExportTable[e].name : e \in {e \in 1..Len(ExportTable) :
        \E i \in 1..Len(m_nodes) : m_nodes[i].type = ExportTable[e].type}}

\* C26: the module written by Graph::generate exports update, onMouseMove,
\* onKeyEvent or start exactly for the entry-point types that have a node in
\* the graph, it imports setYaw, setPropertyFloat, getPropertyFloat in that
\* order, so that the function indices 0, 1, 2 denote them, and these names
\* are the ones the runtime links and looks up.
C26_HostFunctionContract ==
    wasm.written =>
        /\ ExportedNames = EntryPointNames
        /\ ImportIndex("setYaw") = WASMLumixAPI_SET_YAW
        /\ ImportIndex("setPropertyFloat") = WASMLumixAPI_SET_PROPERTY_FLOAT
        /\ ImportIndex("getPropertyFloat") = WASMLumixAPI_GET_PROPERTY_FLOAT
        /\ {Imports[k] : k \in 1..Len(Imports)} = RuntimeLinks
        /\ ExportedNames \subseteq RuntimeLookups

(***************************************************************************)
(* SpecAsset: a script is edited (links and variables are removed), saved  *)
(* and compiled by the asset compiler.                                     *)
(***************************************************************************)
NextAsset ==
    \/ Editing /\ \E i \in 1..Len(m_links) : RemoveLink(i)
    \/ Editing /\ \E i \in 1..Len(m_variables) : DeleteVariable(i)
    \/ Save
    \/ \E is_wasm \in BOOLEAN, readable \in BOOLEAN, oob \in StaleTypes, io \in BOOLEAN :
            Compile(is_wasm, readable, oob, io)

SpecAsset == InitScript /\ [][NextAsset]_vars

\* C27: when Graph::generate leaves a diagnostic on a node,
\* VisualScriptAssetPlugin::compile does not write the compiled resource and
\* return true for that graph.
C27_DiagnosticsChecked ==
    resource.data.errors # {} => ~(resource.written /\ resource.returned = "true")

(***************************************************************************)
(* One instance executing on its own: kvm_call as a function of the        *)
(* instance v (its KVM, its environment block, and the locals ip and sp).  *)
(* A read of a slot that was never written, and a SYSCALL, whose effect is *)
(* the host's, end the run in "unknown".                                   *)
(***************************************************************************)
AloneReads(v, op, arg) ==
    IF op \in {KVM_OP_RET, KVM_OP_SET} THEN <<v.sp - 1>>
    ELSE IF op = KVM_OP_GET_LOCAL THEN <<arg>>
    ELSE IF op \in {KVM_OP_MUL, KVM_OP_MULF, KVM_OP_ADD, KVM_OP_ADDF,
                    KVM_OP_EQ, KVM_OP_NEQ, KVM_OP_GT, KVM_OP_LT, KVM_OP_GTF}
      THEN <<v.sp - 2, v.sp - 1>>
    ELSE IF op = KVM_OP_LTF THEN <<v.sp, v.sp + 1>>
    ELSE <<>>

AloneWrites(v, op) ==
    IF op \in {KVM_OP_CONST32, KVM_OP_CALL, KVM_OP_GET, KVM_OP_GET_LOCAL} THEN {v.sp}
    ELSE IF op = KVM_OP_CONST64 THEN {v.sp, v.sp + 1}
    ELSE IF op \in {KVM_OP_MUL, KVM_OP_MULF, KVM_OP_ADD, KVM_OP_ADDF} THEN {v.sp - 2}
    ELSE {}

\* one iteration of the loop of kvm_call
AloneStep(v) ==
    LET op == IF Readable(v.ip) THEN WordAt(v.ip) ELSE 0 - 1
        fetched == /\ Readable(v.ip)
                   /\ \A k \in 1..OperandWords(op) : Readable(v.ip + k * WordBytes)
        arg == IF fetched /\ OperandWords(op) > 0 THEN WordAt(v.ip + WordBytes) ELSE 0
        next == v.ip + WordBytes
        rd == AloneReads(v, op, arg)
        wr == AloneWrites(v, op)
        a == IF Len(rd) >= 1 /\ rd[1] \in StackSlots THEN v.stack[rd[1]] ELSE 0
        b == IF Len(rd) >= 2 /\ rd[2] \in StackSlots THEN v.stack[rd[2]] ELSE 0
    IN IF ~fetched \/ ~(Range(rd) \cup wr \subseteq StackSlots)
          \/ (op \in {KVM_OP_GET, KVM_OP_SET} /\ arg \notin EnvIdx)
         THEN [v EXCEPT !.pc = "undefined"]
       ELSE IF op = KVM_OP_SYSCALL \/ ~(Range(rd) \subseteq v.determined)
               \/ (op \in {KVM_OP_ADDF, KVM_OP_MULF} /\ ~(F32Modelled(a) /\ F32Modelled(b)))
         THEN [v EXCEPT !.pc = "unknown"]
       ELSE [pc |-> IF op = KVM_OP_END THEN "done" ELSE "run",
             steps |-> v.steps + 1,
             determined |-> v.determined \cup wr,
             vm_sp |-> v.vm_sp,
             ip |-> IF op \in {KVM_OP_JMP, KVM_OP_CALL} THEN arg
                    ELSE IF op = KVM_OP_RET THEN a
                    ELSE IF op \in CompareOps /\ Holds(op, a, b)
                      THEN next + WordBytes + WordBytes
                    ELSE next + OperandWords(op) * WordBytes,
             sp |-> IF op \in {KVM_OP_CONST32, KVM_OP_CALL, KVM_OP_GET, KVM_OP_GET_LOCAL}
                      THEN v.sp + 1
                    ELSE IF op = KVM_OP_CONST64 THEN v.sp + 2
                    ELSE IF op \in {KVM_OP_RET, KVM_OP_POP, KVM_OP_SET, KVM_OP_MUL,
                                    KVM_OP_MULF, KVM_OP_ADD, KVM_OP_ADDF} THEN v.sp - 1
                    ELSE IF op \in CompareOps \ {KVM_OP_LTF} THEN v.sp - 2
                    ELSE v.sp,
             env |-> IF op = KVM_OP_SET THEN [v.env EXCEPT ![arg] = a] ELSE v.env,
             stack |->
                IF op = KVM_OP_CONST32 THEN [v.stack EXCEPT ![v.sp] = arg]
                ELSE IF op = KVM_OP_CONST64
                  THEN [v.stack EXCEPT ![v.sp] = arg, ![v.sp + 1] = WordAt(next + WordBytes)]
                ELSE IF op = KVM_OP_CALL THEN [v.stack EXCEPT ![v.sp] = next + WordBytes]
                ELSE IF op = KVM_OP_GET THEN [v.stack EXCEPT ![v.sp] = v.env[arg]]
                ELSE IF op = KVM_OP_GET_LOCAL THEN [v.stack EXCEPT ![v.sp] = a]
                ELSE IF op = KVM_OP_MUL THEN [v.stack EXCEPT ![v.sp - 2] = U32Mul(a, b)]
                ELSE IF op = KVM_OP_MULF THEN [v.stack EXCEPT ![v.sp - 2] = F32Mul(a, b)]
                ELSE IF op = KVM_OP_ADD THEN [v.stack EXCEPT ![v.sp - 2] = U32Add(a, b)]
                ELSE IF op = KVM_OP_ADDF THEN [v.stack EXCEPT ![v.sp - 2] = F32Add(a, b)]
                ELSE v.stack]

RECURSIVE AloneRun(_, _)
AloneRun(v, n) == IF v.pc # "run" \/ n = 0 THEN v ELSE AloneRun(AloneStep(v), n - 1)

\* kvm_init, the pushes and kvm_call on an instance that is the only one
RunAlone(input) == AloneRun(Enter(input), MaxSteps)

\* the instance v ended as the run of its input on its own ends
EndsAsAlone(v, input) ==
    LET r == RunAlone(input)
    IN v.pc = "done" /\ r.pc = "done"
        => /\ v.stack = r.stack
           /\ v.determined = r.determined
           /\ v.sp = r.sp
           /\ v.env = r.env

\* C28: kvm_call never writes to the bytecode and touches only its own
\* KVM's stack and stack pointer and its own environment block; when two
\* instances with separate environment blocks execute the same finalised
\* bytecode with their steps interleaved, each ends with the stack and the
\* environment it ends with when it runs alone.
C28_SharedBytecodeSafe ==
    /\ [][bytecode' = bytecode]_vars
    /\ [][other'.id = other.id => other'.vm = other.vm]_vars
    /\ [](EndsAsAlone(Running, RunningInput))
    /\ [](EndsAsAlone(other.vm, other.input[other.id]))

\* Both instances ran Increment to its END, the first on an environment
\* block holding 0 and the second on one holding 5; the first was resumed
\* after the second had finished.
C28_Witness ==
    /\ emitted[1].op = KVM_OP_GET
    /\ emitted[2].op = KVM_OP_CONST32
    /\ other.id = 2
    /\ pc = "done" /\ other.vm.pc = "done"
    /\ env[0] = 1 /\ other.vm.env[0] = 6

(***************************************************************************)
(* The operand layout of the emitters, of the patch pass and of the        *)
(* decode loop.                                                            *)
(***************************************************************************)
RECURSIVE PatchVisits(_, _)
\* kvm_bc_end_write: the offsets at which the loop reads an opcode, from
\* word index i of bc on
PatchVisits(bc, i) ==
    IF i > Len(bc) THEN <<>>
    ELSE <<WordBytes * (i - 1)>> \o
         PatchVisits(bc,
            IF bc[i] \in {KVM_OP_JMP, KVM_OP_CALL} THEN i + 2
            ELSE IF bc[i] = KVM_OP_CONST64 THEN i + 3
            ELSE IF bc[i] \in {KVM_OP_SYSCALL, KVM_OP_GET_LOCAL, KVM_OP_GET, KVM_OP_SET,
                               KVM_OP_CONST32} THEN i + 2
            ELSE i + 1)

\* the bytes the emitter of instruction k wrote
EmittedBytes(k) == (IF k < Len(emitted) THEN emitted[k + 1].at ELSE Cursor) - emitted[k].at

\* the word indices of the operands of the JMP and CALL instructions
LabelOperands == {(emitted[k].at \div WordBytes) + 2 :
                    k \in {j \in 1..Len(emitted) : emitted[j].op \in LabelOps}}

\* C29: the patch pass skips, for every opcode, the operand bytes its
\* emitter wrote, so it reads an opcode exactly at the offsets at which the
\* emitters started an instruction; it overwrites only the operands of JMP
\* and CALL; and the decode loop of kvm_call consumes the same bytes (a
\* comparison that holds also skips the 8 bytes of the jump after it).
C29_OperandLayout ==
    /\ [][pc = "write" /\ pc' = "ready"
          => /\ PatchVisits(bytecode, 1) = [k \in 1..Len(emitted) |-> emitted[k].at]
             /\ Len(bytecode') = Len(bytecode)
             /\ \A j \in 1..Len(bytecode) :
                    bytecode'[j] # bytecode[j] => j \in LabelOperands]_vars
    /\ [][pc = "run" /\ steps' = steps + 1
          => \A k \in 1..Len(emitted) :
                emitted[k].at = ip /\ emitted[k].op \notin {KVM_OP_JMP, KVM_OP_CALL, KVM_OP_RET}
                => \/ ip' = ip + EmittedBytes(k)
                   \/ /\ emitted[k].op \in CompareOps
                      /\ ip' = ip + EmittedBytes(k) + WordBytes + WordBytes]_vars

\* CONST64 and a JMP to a label placed between them were written, the patch
\* pass replaced the label id 0 by the offset 12, and the decode loop has
\* executed the CONST64 and stands at the JMP.
C29_Witness ==
    /\ pc = "run" /\ steps = 1
    /\ Len(emitted) = 2
    /\ emitted[1].op = KVM_OP_CONST64 /\ emitted[2].op = KVM_OP_JMP
    /\ emitted[2].arg = 0 /\ bytecode[5] = 12
    /\ ip = 12

(***************************************************************************)
(* SpecScene: ScriptSceneImpl.  Scripts are created on entities, given a   *)
(* resource and destroyed, resources finish loading, the game is started   *)
(* and stopped, and update dispatches the input events and steps every     *)
(* script.                                                                 *)
(***************************************************************************)
Entities == {1, 2}
ScriptPaths == {1, 2, 3}

\* The module in the resource at a path: whether m3_ParseModule,
\* m3_LoadModule, the three LINKs and the lookup of `self` succeed on it, and
\* the functions it exports.
ModuleOf(path) ==
    IF path = 1 THEN [valid |-> TRUE, exports |-> {"update", "onMouseMove"}]
    ELSE IF path = 2 THEN [valid |-> TRUE, exports |-> {"onKeyEvent", "onMouseMove"}]
    ELSE [valid |-> FALSE, exports |-> {}]

\* a Script as constructed: no resource, no runtime, no module (0 is nullptr;
\* m_module is the path of the resource the module was parsed from)
NewScript == [m_resource |-> 0, m_runtime |-> FALSE, m_module |-> 0, m_init_failed |-> FALSE]

\* the input events of one frame: a keyboard button event, a mouse axis event
Frames == [key : BOOLEAN, mouse : BOOLEAN]

\* tryCall(entity, function_name): the call it makes, or why it makes none
tryCall(scripts, e, fn) ==
    [entity |-> e, fn |-> fn,
     outcome |-> IF e \notin DOMAIN scripts THEN "no script"
                 ELSE IF ~scripts[e].m_runtime THEN "no runtime"
                 ELSE IF fn \in ModuleOf(scripts[e].m_module).exports THEN "called"
                 ELSE "lookup failed"]

\* onKeyEvent / onMouseMove: tryCall for every entry of the list
Dispatch(scripts, list, fn) == [k \in 1..Len(list) |-> tryCall(scripts, list[k], fn)]

\* Same shape as UpdateScript; the loop does not skip a script whose
\* m_init_failed is set.
UpdateScript_retryInit(st, e, ready) ==
    LET s == st.scripts[e]
    IN IF s.m_resource = 0 \/ s.m_resource \notin ready THEN st
       ELSE IF ~s.m_runtime /\ ~ModuleOf(s.m_resource).valid
         THEN [st EXCEPT !.scripts[e].m_init_failed = TRUE]
       ELSE LET module == IF s.m_runtime THEN s.m_module ELSE s.m_resource
                exports == ModuleOf(module).exports
            IN [scripts |-> [st.scripts EXCEPT ![e].m_runtime = TRUE, ![e].m_module = module],
                mouse |-> IF "onMouseMove" \in exports THEN Append(st.mouse, e) ELSE st.mouse,
                key |-> IF "onKeyEvent" \in exports THEN Append(st.key, e) ELSE st.key,
                called |-> IF "update" \in exports
                             THEN Append(st.called, [entity |-> e, fn |-> "update",
                                                     outcome |-> "called"])
                           ELSE st.called]

\* the body of the loop of update for the script of entity e; st holds
\* m_scripts, the two lists and the calls made so far
UpdateScript(st, e, ready) ==
    LET s == st.scripts[e]
    IN IF s.m_init_failed \/ s.m_resource = 0 \/ s.m_resource \notin ready THEN st
       ELSE IF ~s.m_runtime /\ ~ModuleOf(s.m_resource).valid
         THEN [st EXCEPT !.scripts[e].m_init_failed = TRUE]
       ELSE LET module == IF s.m_runtime THEN s.m_module ELSE s.m_resource
                exports == ModuleOf(module).exports
            IN [scripts |-> [st.scripts EXCEPT ![e].m_runtime = TRUE, ![e].m_module = module],
                mouse |-> IF "onMouseMove" \in exports THEN Append(st.mouse, e) ELSE st.mouse,
                key |-> IF "onKeyEvent" \in exports THEN Append(st.key, e) ELSE st.key,
                called |-> IF "update" \in exports
                             THEN Append(st.called, [entity |-> e, fn |-> "update",
                                                     outcome |-> "called"])
                           ELSE st.called]

RECURSIVE UpdateScripts(_, _, _)
\* the loop of update over m_scripts, the entities es still to visit
UpdateScripts(st, es, ready) ==
    IF es = {} THEN st
    ELSE LET e == CHOOSE x \in es : \A y \in es : x <= y
         IN UpdateScripts(UpdateScript(st, e, ready), es \ {e}, ready)

createScript(entity) ==
    /\ entity \notin DOMAIN m_scripts
    /\ m_scripts' = [e \in DOMAIN m_scripts \cup {entity} |->
                        IF e = entity THEN NewScript ELSE m_scripts[e]]
    /\ UNCHANGED <<m_mouse_move_scripts, m_key_input_scripts, m_is_game_running, loaded,
                   called, graphVars, genVars, kvmVars>>

\* Array::eraseItem: the first entry equal to the item is removed
eraseItem(list, item) ==
    IF \E k \in 1..Len(list) : list[k] = item
      THEN RemoveAt(list, CHOOSE k \in 1..Len(list) :
                            list[k] = item /\ \A j \in 1..(k - 1) : list[j] # item)
    ELSE list

destroyScript(entity) ==
    /\ entity \in DOMAIN m_scripts
    /\ m_mouse_move_scripts' = eraseItem(m_mouse_move_scripts, entity)
    /\ m_key_input_scripts' = eraseItem(m_key_input_scripts, entity)
    /\ m_scripts' = [e \in DOMAIN m_scripts \ {entity} |-> m_scripts[e]]
    /\ UNCHANGED <<m_is_game_running, loaded, called, graphVars, genVars, kvmVars>>

\* setScriptResource(entity, path); the empty path is 0
setScriptResource(entity, path) ==
    /\ entity \in DOMAIN m_scripts
    /\ m_scripts[entity].m_resource # path
    /\ m_scripts' = [m_scripts EXCEPT ![entity].m_resource = path]
    /\ UNCHANGED <<m_mouse_move_scripts, m_key_input_scripts, m_is_game_running, loaded,
                   called, graphVars, genVars, kvmVars>>

\* the resource manager finished loading the resource at path
ResourceLoaded(path) ==
    /\ path \notin loaded
    /\ \E e \in DOMAIN m_scripts : m_scripts[e].m_resource = path
    /\ loaded' = loaded \cup {path}
    /\ UNCHANGED <<m_scripts, m_mouse_move_scripts, m_key_input_scripts, m_is_game_running,
                   called, graphVars, genVars, kvmVars>>

startGame ==
    /\ ~m_is_game_running
    /\ m_is_game_running' = TRUE
    /\ UNCHANGED <<m_scripts, m_mouse_move_scripts, m_key_input_scripts, loaded, called,
                   graphVars, genVars, kvmVars>>

stopGame ==
    /\ m_is_game_running
    /\ m_is_game_running' = FALSE
    /\ m_mouse_move_scripts' = <<>>
    /\ m_key_input_scripts' = <<>>
    /\ UNCHANGED <<m_scripts, loaded, called, graphVars, genVars, kvmVars>>

\* update(time_delta, paused) with the events of the frame
update(paused, frame) ==
    /\ Len(m_mouse_move_scripts) <= MaxRegistered
    /\ Len(m_key_input_scripts) <= MaxRegistered
    /\ IF paused \/ ~m_is_game_running
         THEN /\ called' = <<>>
              /\ UNCHANGED <<m_scripts, m_mouse_move_scripts, m_key_input_scripts>>
       ELSE LET events ==
                    (IF frame.key THEN Dispatch(m_scripts, m_key_input_scripts, "onKeyEvent")
                     ELSE <<>>)
                    \o (IF frame.mouse
                          THEN Dispatch(m_scripts, m_mouse_move_scripts, "onMouseMove")
                        ELSE <<>>)
                st == UpdateScripts([scripts |-> m_scripts, mouse |-> m_mouse_move_scripts,
                                     key |-> m_key_input_scripts, called |-> events],
                                    DOMAIN m_scripts, loaded)
            IN /\ m_scripts' = st.scripts
               /\ m_mouse_move_scripts' = st.mouse
               /\ m_key_input_scripts' = st.key
               /\ called' = st.called
    /\ UNCHANGED <<m_is_game_running, loaded, graphVars, genVars, kvmVars>>

InitScene ==
    /\ m_nodes = <<>> /\ m_links = <<>> /\ m_variables = <<>>
    /\ node_counter_ = 0 /\ blob = <<>> /\ compiled = NoGraph /\ m_path = NoPath
    /\ generated = NoCode
    /\ NotCompiled
    /\ SceneIdle
    /\ KvmIdle

NextScene ==
    \/ \E e \in Entities : createScript(e)
    \/ \E e \in Entities : destroyScript(e)
    \/ \E e \in Entities, path \in ScriptPaths \cup {0} : setScriptResource(e, path)
    \/ \E path \in ScriptPaths : ResourceLoaded(path)
    \/ startGame
    \/ stopGame
    \/ \E paused \in BOOLEAN, frame \in Frames : update(paused, frame)

SpecScene == InitScene /\ [][NextScene]_vars

Occurrences(list, e) == Cardinality({k \in 1..Len(list) : list[k] = e})

\* C30: no entity occurs more than once in m_mouse_move_scripts or in
\* m_key_input_scripts, so one mouse-move or key event of a frame invokes a
\* script's onMouseMove or onKeyEvent once.
C30_RegisteredOnce ==
    /\ \A e \in Entities : Occurrences(m_mouse_move_scripts, e) <= 1
    /\ \A e \in Entities : Occurrences(m_key_input_scripts, e) <= 1
    /\ \A e \in Entities, fn \in {"onMouseMove", "onKeyEvent"} :
            Cardinality({k \in 1..Len(called) :
                            called[k].entity = e /\ called[k].fn = fn}) <= 1

\* C31: an entity whose script was destroyed occurs in neither
\* m_mouse_move_scripts nor m_key_input_scripts, so no input event makes
\* tryCall look up an entity that is absent from m_scripts.
C31_NoCallOnDestroyed ==
    /\ \A k \in 1..Len(m_mouse_move_scripts) : m_mouse_move_scripts[k] \in DOMAIN m_scripts
    /\ \A k \in 1..Len(m_key_input_scripts) : m_key_input_scripts[k] \in DOMAIN m_scripts
    /\ \A k \in 1..Len(called) : called[k].outcome # "no script"

\* C32: whenever a Script is destroyed (the one erased from m_scripts by
\* destroyScript), its m_runtime and m_module are null, as the destructor
\* asserts.
C32_DestructorAssertions ==
    [][\A e \in DOMAIN m_scripts \ DOMAIN m_scripts' :
            ~m_scripts[e].m_runtime /\ m_scripts[e].m_module = 0]_vars

\* the instance v, entered with input, ran a program whose pushes and pops
\* balance to its END: every program of Programs does when the callback of
\* its SYSCALL pushes nothing, that is when no slot above the pushed
\* argument was written
BalancedRunEnded(v, input) ==
    /\ v.pc = "done"
    /\ emitted[1].op = KVM_OP_CONST32 => v.determined = 0 .. Len(input.pushes)

\* C33: after kvm_call has returned from a program whose pushes and pops
\* balance (a SYSCALL with a callback that pushes nothing included), vm->sp
\* is what it was before the call.
C33_NoStackLeak ==
    /\ BalancedRunEnded(Running, RunningInput) => vm_sp = Len(RunningInput.pushes)
    /\ other.id # 0 /\ BalancedRunEnded(other.vm, other.input[other.id])
        => other.vm.vm_sp = Len(other.input[other.id].pushes)

\* C34: when a variable is deleted in the editor, every GetVariable or
\* SetVariable node that referred to another table entry refers to that same
\* entry afterwards (the entries after the deleted one move down by one),
\* and its index is less than the table length.
C34_VariableReferencesSurvive ==
    [][Len(m_variables') = Len(m_variables) - 1
       => \E i \in 1..Len(m_variables) :
            /\ m_variables' = RemoveAt(m_variables, i)
            /\ Len(m_nodes') = Len(m_nodes)
            /\ \A k \in 1..Len(m_nodes) :
                    /\ m_nodes[k].type \in {Type_GET_VARIABLE, Type_SET_VARIABLE}
                    /\ m_nodes[k].m_var + 1 # i
                    => /\ m_nodes'[k].m_var = IF m_nodes[k].m_var + 1 < i
                                                THEN m_nodes[k].m_var
                                              ELSE m_nodes[k].m_var - 1
                       /\ m_nodes'[k].m_var < Len(m_variables')]_vars


(***************************************************************************)
(* SpecGlobals: the variable panel of the editor (add, type combo and     *)
(* name field, delete) followed by Graph::generate.  The type combo       *)
(* offers u32, i32, float and entity.                                     *)
(***************************************************************************)
NextGlobals ==
    \/ wasm = NoModule /\ \E t \in ScriptValueTypes : AddVariable(t)
    \/ wasm = NoModule /\ \E i \in 1..Len(m_variables), nm \in VarNames,
                             t \in ScriptValueTypes : EditVariable(i, nm, t)
    \/ wasm = NoModule /\ \E i \in 1..Len(m_variables) : DeleteVariable(i)
    \/ wasm = NoModule /\ \E oob \in StaleTypes : GraphGenerate(oob)

SpecGlobals == InitGraph /\ [][NextGlobals]_vars

\* C35: the generated module declares 1 + (number of variables) globals,
\* self (an i32) at index 0 and variable i at index i + 1, an f32 for a
\* FLOAT variable and an i32 for a U32, I32 or ENTITY variable.
C35_VariableGlobals ==
    wasm.written =>
        /\ Len(wasm.globals) = 1 + Len(m_variables)
        /\ wasm.globals[WASMGlobals_SELF + 1] = WASMType_I32
        /\ \A i \in 0..(Len(m_variables) - 1) :
                wasm.globals[WASMGlobals_USER + i + 1] =
                    IF m_variables[i + 1].type = ValueType_FLOAT THEN WASMType_F32
                    ELSE WASMType_I32


\* the type of the value an instruction pushes, 0 if it pushes none; the
\* globals are those of the module being written
ResultType(ins, gl) ==
    IF ins.op \in {WasmOp_I32_CONST, WasmOp_I32_ADD, WasmOp_I32_MUL} THEN WASMType_I32
    ELSE IF ins.op \in {WasmOp_F32_CONST, WasmOp_F32_ADD, WasmOp_F32_MUL} THEN WASMType_F32
    ELSE IF ins.op = WasmOp_I64_CONST THEN WASMType_I64
    ELSE IF ins.op = WasmOp_F64_CONST THEN WASMType_F64
    ELSE IF ins.op = WasmOp_GLOBAL_GET /\ ins.arg < Len(gl) THEN gl[ins.arg + 1]
    ELSE IF ins.op = WasmOp_CALL /\ ImportResult(ins.arg) # <<>> THEN ImportResult(ins.arg)[1]
    ELSE 0

\* C36: for a data-producing node whose operands are all connected, the type
\* of the value its generate leaves on the stack is the one getOutputType
\* reports: f32 for FLOAT, i32 for U32, I32 and ENTITY.
C36_ReportedTypeMatches ==
    [][\A i \in 1..Len(m_nodes), idx \in OutputIdxs, oob \in StaleTypes :
            /\ GenerateNode(i, idx, oob)
            /\ OperandsConnected(CurGraph, i, {})
            /\ generated'.code # <<>>
            => ResultType(generated'.code[Len(generated'.code)],
                          Graph_generate(CurGraph, oob).globals)
                    = IF getOutputType(CurGraph, i, {}, oob) = ValueType_FLOAT
                        THEN WASMType_F32 ELSE WASMType_I32]_vars


\* C37: for every node id the graph has assigned and every input pin index,
\* the link endpoint id | (pin << 16) decodes (value & 0x7fff, value >> 16)
\* to the id and the pin; the node-id counter never exceeds 0x7fff.
C37_PinRoundTrip ==
    /\ \A n \in NodeIds, p \in PinRange :
            /\ NodeOfPin(InputPinId(n, p)) = n
            /\ Shr16(InputPinId(n, p)) = p
    /\ node_counter_ <= 32767


\* C38: after Graph::deserialize of bytes written by Graph::serialize the
\* counter of the loaded graph is the counter that was serialized: a load
\* leaves node_counter_ equal to the counter field of the file, and a save of
\* the loaded graph writes that same counter field.
C38_CounterRoundTrip ==
    [][\A path \in Paths :
            Load(path) /\ GoodHeader(blob)
            => /\ node_counter_' = Read(blob, 3)
               /\ Read(serialize(CurGraph'), 3) = Read(blob, 3)]_vars


====
